---- MODULE Spec2Model ----
(***************************************************************************)
(* OneTask: projects, prioritised tasks, the auto-priority engine, the     *)
(* ordering engine and the soft-delete / undo coordinator.                 *)
(*                                                                         *)
(* Two App components live in the repository:                              *)
(*   - the session-storage variant (src/unnamed/part_009, App at l.174),   *)
(*     which removes a deleted item from `projects` at once and keeps a    *)
(*     copy in `deletedItem`;                                              *)
(*   - the local-storage variant (src/App.tsx), which leaves the item in   *)
(*     `projects`, hides it in projectsForDisplay and removes it 300 ms    *)
(*     after the 5 s timer fired.                                          *)
(*                                                                         *)
(* Calendar dates ('YYYY-MM-DD' strings in the code) are day numbers; day  *)
(* d at local midnight is d * MsPerDay milliseconds, its weekday d % 7.    *)
(* React state is one variable per useState cell; a useEffect that is due  *)
(* to run is a flag, and no event handler runs while an effect is due      *)
(* (React flushes passive effects before it handles the next event).       *)
(***************************************************************************)
EXTENDS Integers, Sequences, FiniteSets, TLC

VARIABLES
    projects,          \* useState<Project[]>
    completedTasks,    \* useState<CompletedTask[]>
    activeProjectId,   \* useState<string | null>
    settings,          \* useState({...})
    isDataLoaded,      \* useState(false), session variant only
    deletedItem,       \* useState<DeletedItem | null>, session variant
    undoTimeoutRef,    \* useRef: the 5 s timer of registerDeletion is armed
    toastRendered,     \* UndoToast.shouldRender: the Undo button is in the DOM
    today,             \* the local calendar date new Date() yields
    nextId,            \* ids handed out so far (crypto.randomUUID is fresh)
    activeEffectDue,   \* the activeProjectId effect has a changed dependency
    priorityEffectDue, \* the auto-priority effect has a changed dependency
    lastOp,            \* history: the handler or callback that ran last
    lowPromoted,       \* history: ids of the tasks the Low -> Medium step has
                       \* fired on since their autoPromoteDate was last set
    reverted,          \* history: ids of the tasks whose originalPriority the
                       \* effect has restored since the last handler ran
    \* state of the local-storage variant of App (src/App.tsx) only
    itemToUndo,        \* ItemToUndo | null
    itemToDelete,      \* ItemToUndo | null
    undoTimerRef,      \* the item the pending 5000 ms timer will stage
    deleteTimer,       \* the pending 300 ms timer of the itemToDelete effect
                       \* and the render values its callback closes over
    doomed,            \* history: <<type, id>> of the items deleted and not
                       \* recovered by a click on Undo
    \* what the session-storage variant has persisted
    localStorage,      \* the UserData under onetask_data_<user>, or NoData
    apiData,           \* the UserData the API has accepted, or NoData
    \* timers
    undoTimeouts,      \* session variant: the scheduled 5000 ms callbacks of
                       \* registerDeletion, each named by the item it was set for
    undoTimers,        \* local variant: the scheduled 5000 ms callbacks of
                       \* startUndoTimer, each with the item it closes over
    completeTimeouts,  \* the scheduled 300 ms callbacks of TaskCard's
                       \* handleComplete, in the order they were set, each
                       \* with the render values onComplete closes over
    variant,           \* which App component is mounted: "session" or "local"
    overwritten,       \* history: the pending item the deletion that ran
                       \* last has pushed out of deletedItem, or NoItem
    \* what the components have rendered last
    board,             \* TaskBoard: the three columns and the scheduled list
    sidebar,           \* Sidebar: the project order and the badges
    \* accounts
    currentUser,       \* useSessionStorage<User | null>('onetask-currentUser')
    localUsers,        \* localStorage['onetask_local_users'], << >> if unset
    kv,                \* the server's key-value store: "user:<email>" -> User
    updateResult       \* what the last call of handleUpdateUser was given
                       \* and what it returned

vars == << projects, completedTasks, activeProjectId, settings, isDataLoaded,
           deletedItem, undoTimeoutRef, toastRendered, today, nextId,
           activeEffectDue, priorityEffectDue, lastOp, lowPromoted,
           reverted, itemToUndo, itemToDelete, undoTimerRef, deleteTimer,
           doomed, localStorage, apiData, undoTimeouts, undoTimers, variant,
           overwritten, board, sidebar, completeTimeouts, currentUser,
           localUsers, kv, updateResult >>

accountVars == << currentUser, localUsers, kv, updateResult >>

localVars == << itemToUndo, itemToDelete, undoTimerRef, deleteTimer, doomed,
               undoTimers, variant, board, sidebar, completeTimeouts,
               accountVars >>

sessionVars == << isDataLoaded, deletedItem, undoTimeoutRef, localStorage,
                 apiData, undoTimeouts, variant, overwritten, board,
                 sidebar, completeTimeouts, accountVars >>

persisted == << localStorage, apiData >>

----------------------------------------------------------------------------
(* Bounds of the model *)

MaxProjects == 2
MaxTasks == 1
MaxDay == 1

----------------------------------------------------------------------------
(* Values *)

Absent == 0 - 1
NoProject == 0
NoItem == [type |-> "none"]
NoTimer == [armed |-> FALSE]
NoData == [stored |-> FALSE]
NoRender == [rendered |-> FALSE]
NoUser == [id |-> 0]
NoResult == [called |-> FALSE]

Priorities == {"Low", "Medium", "High"}

MsPerHour == 60 * 60 * 1000
MsPerDay == 24 * MsPerHour

\* new Date(str + 'T00:00:00').getTime()
getTime(day) == day * MsPerDay

\* Date.prototype.getDay(), day 0 taken to be a Sunday
getDay(day) == day % 7

\* the <option> values of the promotion-hours <select>
PromotionHours == {24, 48, 72, 168}

defaultSettings ==
    [ isAutoPriorityModeEnabled |-> FALSE,
      autoPriorityDays |-> {},
      autoPriorityHours |-> 24,
      isAutoRotationEnabled |-> FALSE ]

----------------------------------------------------------------------------
(* Sequence helpers (Array.prototype.map / filter / splice / findIndex) *)

MapSeq(s, F(_)) == [i \in 1..Len(s) |-> F(s[i])]

FilterSeq(s, P(_)) == SelectSeq(s, P)

Range(s) == {s[i] : i \in 1..Len(s)}

Min(a, b) == IF a <= b THEN a ELSE b

\* mutant: the item is put back at the end of the list
SpliceAtEnd(s, index, item) == Append(s, item)

\* arr.splice(index, 0, item) with a 0-based index; an index past the end
\* appends
SpliceIn(s, index, item) ==
    LET k == Min(index, Len(s))
    IN  SubSeq(s, 1, k) \o << item >> \o SubSeq(s, k + 1, Len(s))

\* arr.findIndex(p => p.id === id), 0-based, -1 when absent
findIndex(s, id) ==
    IF \E i \in 1..Len(s) : s[i].id = id
    THEN (CHOOSE i \in 1..Len(s) :
             s[i].id = id /\ \A j \in 1..(i - 1) : s[j].id # id) - 1
    ELSE 0 - 1

HasId(s, id) == \E i \in 1..Len(s) : s[i].id = id

\* arr.find(p => p.id === id); only used where HasId holds
find(s, id) == s[findIndex(s, id) + 1]

AllTasks(ps) == UNION { Range(ps[i].tasks) : i \in 1..Len(ps) }

----------------------------------------------------------------------------
(* The auto-priority engine of the session-storage variant *)

isDueWithinTimeframe(dueDate, hours, now) ==
    getTime(dueDate) - getTime(now) <= hours * MsPerHour

shouldBePromoted(t, s, now) ==
    \/ isDueWithinTimeframe(t.dueDate, s.autoPriorityHours, now)
    \/ getDay(t.dueDate) \in s.autoPriorityDays

\* mutant: the trigger date is left on the task
lowToMediumKeepsDate(t, now) ==
    IF /\ t.priority = "Low"
       /\ t.autoPromoteDate # Absent
       /\ getTime(now) >= getTime(t.autoPromoteDate)
    THEN [t EXCEPT !.priority = "Medium"]
    ELSE t

\* 1. Low -> Medium promotion
lowToMedium(t, now) ==
    IF /\ t.priority = "Low"
       /\ t.autoPromoteDate # Absent
       /\ getTime(now) >= getTime(t.autoPromoteDate)
    THEN [t EXCEPT !.priority = "Medium", !.autoPromoteDate = Absent]
    ELSE t

basePriority(t) ==
    IF t.originalPriority # "none" THEN t.originalPriority ELSE t.priority

revert(t) == [t EXCEPT !.priority = t.originalPriority,
                       !.originalPriority = "none"]

\* mutant: nothing is reverted while the mode is off
mediumToHighNoRevertWhenOff(t, s, now) ==
    IF s.isAutoPriorityModeEnabled
    THEN IF basePriority(t) = "Medium" /\ t.dueDate # Absent
         THEN IF shouldBePromoted(t, s, now) /\ t.priority # "High"
              THEN [t EXCEPT !.priority = "High",
                             !.originalPriority = basePriority(t)]
              ELSE IF t.originalPriority # "none"
                      /\ ~shouldBePromoted(t, s, now)
                   THEN revert(t)
                   ELSE t
         ELSE t
    ELSE t

\* 2. Medium -> High promotion (and reverting)
mediumToHigh(t, s, now) ==
    IF s.isAutoPriorityModeEnabled
    THEN IF basePriority(t) = "Medium" /\ t.dueDate # Absent
         THEN IF shouldBePromoted(t, s, now) /\ t.priority # "High"
              THEN [t EXCEPT !.priority = "High",
                             !.originalPriority = basePriority(t)]
              ELSE IF t.originalPriority # "none"
                      /\ ~shouldBePromoted(t, s, now)
                   THEN revert(t)
                   ELSE t
         ELSE t
    ELSE IF t.originalPriority # "none" THEN revert(t) ELSE t

\* mutant: the two steps in the other order
autoPriorityTaskSwapped(t, s, now) ==
    lowToMedium(mediumToHigh(t, s, now), now)

\* the body of p.tasks.map(t => ...) for one task
autoPriorityTask(t, s, now) == mediumToHigh(lowToMedium(t, now), s, now)

\* updatedProjects of one pass of the effect
autoPriorityPass(ps, s, now) ==
    [i \in 1..Len(ps) |->
        [ps[i] EXCEPT !.tasks =
            [j \in 1..Len(ps[i].tasks) |->
                autoPriorityTask(ps[i].tasks[j], s, now)]]]

\* mutant: the effect without its first `if`, which selects the first
\* project when the selection is not the id of a project
activeProjectEffectWithoutRepair(ps, active) ==
    IF Len(ps) = 0 THEN NoProject ELSE active

\* the activeProjectId effect
activeProjectEffect(ps, active) ==
    IF Len(ps) = 0 THEN NoProject
    ELSE IF active = NoProject \/ ~HasId(ps, active) THEN ps[1].id
    ELSE active

----------------------------------------------------------------------------
(* What the add / edit forms and the settings dialog can submit *)

\* AddTaskModal.handleSubmit: autoPromoteDate only survives with priority
\* Low (the effect on [priority] clears it otherwise)
taskForms(dues, ests, promotes, scheds) ==
    { f \in [ dueDate : dues, priority : Priorities, estimatedTime : ests,
              autoPromoteDate : promotes \cup {Absent},
              scheduledDate : scheds ] :
        f.autoPromoteDate # Absent => f.priority = "Low" }

newTask(id, f) ==
    [ id |-> id, dueDate |-> f.dueDate, priority |-> f.priority,
      originalPriority |-> "none", estimatedTime |-> f.estimatedTime,
      autoPromoteDate |-> f.autoPromoteDate,
      scheduledDate |-> f.scheduledDate ]

\* EditTaskModal.handleSubmit: { ...task, dueDate, priority, ... }
editedTask(t, f) ==
    [ t EXCEPT !.dueDate = f.dueDate, !.priority = f.priority,
               !.estimatedTime = f.estimatedTime,
               !.autoPromoteDate = f.autoPromoteDate,
               !.scheduledDate = f.scheduledDate ]

settingsForms(hours, days, rotations) ==
    [ isAutoPriorityModeEnabled : BOOLEAN, autoPriorityDays : days,
      autoPriorityHours : hours, isAutoRotationEnabled : rotations ]

\* the undo state of the local-storage variant at rest
localIdle ==
    /\ itemToUndo = NoItem
    /\ itemToDelete = NoItem
    /\ undoTimerRef = NoItem
    /\ deleteTimer = NoTimer
    /\ doomed = {}
    /\ localStorage = NoData
    /\ apiData = NoData
    /\ undoTimers = {}
    /\ board = NoRender
    /\ sidebar = NoRender
    /\ completeTimeouts = << >>
    /\ currentUser = NoUser
    /\ localUsers = << >>
    /\ kv = << >>
    /\ updateResult = NoResult

----------------------------------------------------------------------------
(* Session-storage variant: state after the first render *)

InitMount ==
    /\ projects = << >>
    /\ completedTasks = << >>
    /\ activeProjectId = NoProject
    /\ settings = defaultSettings
    /\ isDataLoaded = FALSE
    /\ deletedItem = NoItem
    /\ undoTimeoutRef = FALSE
    /\ undoTimeouts = {}
    /\ overwritten = NoItem
    /\ toastRendered = FALSE
    /\ today = 0
    /\ nextId = [project |-> 0, task |-> 0]
    /\ activeEffectDue = TRUE
    /\ priorityEffectDue = TRUE
    /\ lastOp = "mount"
    /\ lowPromoted = {}
    /\ reverted = {}
    /\ localIdle
    /\ variant = "session"

Settled == ~activeEffectDue /\ ~priorityEffectDue

\* setProjects(next) from a handler: both effects depend on projects
setProjects(next) ==
    /\ projects' = next
    /\ activeEffectDue' = TRUE
    /\ priorityEffectDue' = TRUE

replaceProject(ps, id, P(_)) ==
    [i \in 1..Len(ps) |-> IF ps[i].id = id THEN P(ps[i]) ELSE ps[i]]

withoutTask(p, taskId) ==
    [p EXCEPT !.tasks = FilterSeq(p.tasks, LAMBDA t : t.id # taskId)]

withoutProject(ps, id) == FilterSeq(ps, LAMBDA p : p.id # id)

\* the load effect reaches its finally block (no stored data, API unreachable)
fetchData ==
    /\ Settled
    /\ ~isDataLoaded
    /\ isDataLoaded' = TRUE
    /\ priorityEffectDue' = TRUE
    /\ lastOp' = "fetchData"
    /\ reverted' = {}
    /\ overwritten' = NoItem
    /\ UNCHANGED localVars
    /\ UNCHANGED persisted
    /\ UNCHANGED << lowPromoted, projects, completedTasks, activeProjectId, settings,
                    deletedItem, undoTimeoutRef, undoTimeouts, toastRendered, today,
                    nextId,
                    activeEffectDue >>

\* the activeProjectId effect and the auto-priority effect, when due
runEffects ==
    /\ ~Settled
    /\ LET active1 == IF activeEffectDue
                      THEN activeProjectEffect(projects, activeProjectId)
                      ELSE activeProjectId
           projects1 == IF priorityEffectDue /\ isDataLoaded
                        THEN autoPriorityPass(projects, settings, today)
                        ELSE projects
       IN  /\ activeProjectId' = active1
           /\ projects' = projects1
           /\ activeEffectDue' = (active1 # activeProjectId \/ projects1 # projects)
           /\ priorityEffectDue' = (projects1 # projects)
           /\ lowPromoted' =
                IF priorityEffectDue /\ isDataLoaded
                THEN lowPromoted \cup
                       { t.id : t \in { u \in AllTasks(projects) :
                                           lowToMedium(u, today) # u } }
                ELSE lowPromoted
           /\ reverted' =
                IF priorityEffectDue /\ isDataLoaded
                THEN reverted \cup
                       { t.id : t \in { u \in AllTasks(projects) :
                            /\ u.originalPriority # "none"
                            /\ autoPriorityTask(u, settings, today)
                                  .originalPriority = "none" } }
                ELSE reverted
    /\ UNCHANGED << completedTasks, settings, isDataLoaded, deletedItem,
                    undoTimeoutRef, undoTimeouts, toastRendered, today, nextId, lastOp,
                    overwritten >>
    /\ UNCHANGED localVars
    /\ UNCHANGED persisted

\* mutant: a pending item is not pushed out of the slot
registerDeletionKeepsFirst(item) ==
    /\ deletedItem' = IF deletedItem = NoItem THEN item ELSE deletedItem
    /\ undoTimeoutRef' = TRUE
    /\ undoTimeouts' = (IF undoTimeoutRef THEN undoTimeouts \ {deletedItem}
                        ELSE undoTimeouts) \cup {deletedItem'}
    /\ overwritten' = deletedItem
    /\ toastRendered' = TRUE

\* mutant: the timer of the deletion before is left running
registerDeletionKeepsTimer(item) ==
    /\ deletedItem' = item
    /\ undoTimeoutRef' = TRUE
    /\ undoTimeouts' = undoTimeouts \cup {item}
    /\ overwritten' = deletedItem
    /\ toastRendered' = TRUE

\* setDeletedItem(item); clearTimeout(undoTimeoutRef.current); setTimeout
registerDeletion(item) ==
    /\ deletedItem' = item
    /\ undoTimeoutRef' = TRUE
    /\ undoTimeouts' = (IF undoTimeoutRef THEN undoTimeouts \ {deletedItem}
                        ELSE undoTimeouts) \cup {item}
    /\ overwritten' = deletedItem
    /\ toastRendered' = TRUE

handleAddProject ==
    /\ Settled
    /\ nextId.project < MaxProjects
    /\ LET newProject == [id |-> nextId.project + 1, tasks |-> << >>]
       IN  /\ setProjects(Append(projects, newProject))
           /\ activeProjectId' = newProject.id
    /\ nextId' = [nextId EXCEPT !.project = @ + 1]
    /\ lastOp' = "handleAddProject"
    /\ reverted' = {}
    /\ overwritten' = NoItem
    /\ UNCHANGED localVars
    /\ UNCHANGED persisted
    /\ UNCHANGED << lowPromoted, completedTasks, settings, isDataLoaded, deletedItem,
                    undoTimeoutRef, undoTimeouts, toastRendered, today >>

handleDeleteProject(projectId) ==
    /\ Settled
    /\ HasId(projects, projectId)
    /\ LET projectIndex == findIndex(projects, projectId)
           projectToDelete == projects[projectIndex + 1]
           updatedProjects == withoutProject(projects, projectId)
       IN  /\ setProjects(updatedProjects)
           /\ activeProjectId' =
                IF activeProjectId = projectId
                THEN IF Len(updatedProjects) > 0
                     THEN updatedProjects[
                            Min(projectIndex, Len(updatedProjects) - 1) + 1].id
                     ELSE NoProject
                ELSE activeProjectId
           /\ registerDeletion([type |-> "project", item |-> projectToDelete,
                                index |-> projectIndex])
    /\ lastOp' = "handleDeleteProject"
    /\ reverted' = {}
    /\ UNCHANGED localVars
    /\ UNCHANGED persisted
    /\ UNCHANGED << lowPromoted, completedTasks, settings, isDataLoaded, today, nextId >>

handleAddTask(f) ==
    /\ Settled
    /\ activeProjectId # NoProject
    /\ nextId.task < MaxTasks
    /\ setProjects(replaceProject(projects, activeProjectId,
            LAMBDA c : [c EXCEPT !.tasks =
                            Append(c.tasks, newTask(nextId.task + 1, f))]))
    /\ nextId' = [nextId EXCEPT !.task = @ + 1]
    /\ lastOp' = "handleAddTask"
    /\ reverted' = {}
    /\ overwritten' = NoItem
    /\ UNCHANGED localVars
    /\ UNCHANGED persisted
    /\ UNCHANGED << lowPromoted, completedTasks, activeProjectId, settings, isDataLoaded,
                    deletedItem, undoTimeoutRef, undoTimeouts, toastRendered, today >>

\* the tasks TaskBoard and ScheduledTasksModal offer for edit/delete/complete
activeTasks ==
    IF activeProjectId # NoProject /\ HasId(projects, activeProjectId)
    THEN Range(find(projects, activeProjectId).tasks)
    ELSE {}

handleEditTask(t, f) ==
    /\ Settled
    /\ activeProjectId # NoProject
    /\ t \in activeTasks
    /\ setProjects(replaceProject(projects, activeProjectId,
            LAMBDA c : [c EXCEPT !.tasks =
                MapSeq(c.tasks, LAMBDA u : IF u.id = t.id
                                           THEN editedTask(t, f) ELSE u)]))
    /\ lastOp' = "handleEditTask"
    /\ reverted' = {}
    /\ overwritten' = NoItem
    /\ UNCHANGED localVars
    /\ UNCHANGED persisted
    /\ lowPromoted' = IF f.autoPromoteDate # Absent
                      THEN lowPromoted \ {t.id} ELSE lowPromoted
    /\ UNCHANGED << completedTasks, activeProjectId, settings, isDataLoaded,
                    deletedItem, undoTimeoutRef, undoTimeouts, toastRendered, today, nextId >>

handleDeleteTask(t) ==
    /\ Settled
    /\ activeProjectId # NoProject
    /\ t \in activeTasks
    /\ setProjects(replaceProject(projects, activeProjectId,
            LAMBDA p : withoutTask(p, t.id)))
    /\ registerDeletion([type |-> "task", item |-> t,
                         projectId |-> activeProjectId])
    /\ lastOp' = "handleDeleteTask"
    /\ reverted' = {}
    /\ UNCHANGED localVars
    /\ UNCHANGED persisted
    /\ UNCHANGED << lowPromoted, completedTasks, activeProjectId, settings, isDataLoaded,
                    today, nextId >>

\* { ...taskToComplete, completedAt, projectId, projectName }
completedTask(t, projectId) ==
    [ k \in DOMAIN t \cup {"projectId"} |->
        IF k = "projectId" THEN projectId ELSE t[k] ]

handleCompleteTask(t) ==
    /\ Settled
    /\ activeProjectId # NoProject
    /\ t \in activeTasks
    /\ completedTasks' = << completedTask(t, activeProjectId) >> \o completedTasks
    /\ setProjects(replaceProject(projects, activeProjectId,
            LAMBDA p : withoutTask(p, t.id)))
    /\ lastOp' = "handleCompleteTask"
    /\ reverted' = {}
    /\ overwritten' = NoItem
    /\ UNCHANGED localVars
    /\ UNCHANGED persisted
    /\ UNCHANGED << lowPromoted, activeProjectId, settings, isDataLoaded, deletedItem,
                    undoTimeoutRef, undoTimeouts, toastRendered, today, nextId >>

\* projects after handleUndo
undoProjects(ps, d) ==
    IF d.type = "project" THEN SpliceIn(ps, d.index, d.item)
    ELSE IF d.type = "task"
    THEN replaceProject(ps, d.projectId,
            LAMBDA p : [p EXCEPT !.tasks = Append(p.tasks, d.item)])
    ELSE ps

\* the Undo button of the toast, clickable while the toast is in the DOM
handleUndo ==
    /\ Settled
    /\ toastRendered
    /\ IF deletedItem = NoItem
       THEN UNCHANGED << projects, activeProjectId, deletedItem,
                         undoTimeoutRef, undoTimeouts, activeEffectDue, priorityEffectDue >>
       ELSE /\ setProjects(undoProjects(projects, deletedItem))
            /\ activeProjectId' = IF deletedItem.type = "project"
                                  THEN deletedItem.item.id
                                  ELSE activeProjectId
            /\ deletedItem' = NoItem
            /\ undoTimeoutRef' = FALSE
            /\ undoTimeouts' = IF undoTimeoutRef
                               THEN undoTimeouts \ {deletedItem}
                               ELSE undoTimeouts
    /\ lastOp' = IF deletedItem = NoItem THEN "handleUndo:none"
                 ELSE IF deletedItem.type = "project" THEN "handleUndo:project"
                 ELSE "handleUndo:task"
    /\ reverted' = {}
    /\ overwritten' = NoItem
    /\ UNCHANGED localVars
    /\ UNCHANGED persisted
    /\ UNCHANGED << lowPromoted, completedTasks, settings, isDataLoaded, toastRendered,
                    today, nextId >>

\* the 5000 ms callback of registerDeletion
undoTimeout ==
    /\ Settled
    /\ \E h \in undoTimeouts : undoTimeouts' = undoTimeouts \ {h}
    /\ deletedItem' = NoItem
    /\ undoTimeoutRef' = FALSE
    /\ lastOp' = "undoTimeout"
    /\ reverted' = {}
    /\ overwritten' = NoItem
    /\ UNCHANGED localVars
    /\ UNCHANGED persisted
    /\ UNCHANGED << lowPromoted, projects, completedTasks, activeProjectId, settings,
                    isDataLoaded, toastRendered, today, nextId,
                    activeEffectDue, priorityEffectDue >>

\* UndoToast: setShouldRender(false) 300 ms after isVisible became false
toastUnmount ==
    /\ Settled
    /\ toastRendered
    /\ deletedItem = NoItem
    /\ toastRendered' = FALSE
    /\ lastOp' = "toastUnmount"
    /\ reverted' = {}
    /\ overwritten' = NoItem
    /\ UNCHANGED localVars
    /\ UNCHANGED persisted
    /\ UNCHANGED << lowPromoted, projects, completedTasks, activeProjectId, settings,
                    isDataLoaded, deletedItem, undoTimeoutRef, undoTimeouts, today, nextId,
                    activeEffectDue, priorityEffectDue >>

\* the dependencies of the auto-priority effect that come from settings
priorityDeps(s) ==
    << s.isAutoPriorityModeEnabled, s.autoPriorityDays, s.autoPriorityHours >>

\* setSettings(newSettings); an equal autoPriorityDays may still be a fresh
\* array (a day toggled twice in the dialog), which re-runs the effect
handleSaveSettings(newSettings) ==
    /\ Settled
    /\ settings' = newSettings
    /\ \E fresh \in BOOLEAN :
          priorityEffectDue' =
              (priorityDeps(newSettings) # priorityDeps(settings) \/ fresh)
    /\ lastOp' = IF newSettings.isAutoPriorityModeEnabled
                 THEN "handleSaveSettings:on"
                 ELSE IF settings.isAutoPriorityModeEnabled
                 THEN "handleSaveSettings:turnedOff"
                 ELSE "handleSaveSettings:off"
    /\ reverted' = {}
    /\ overwritten' = NoItem
    /\ UNCHANGED localVars
    /\ UNCHANGED persisted
    /\ UNCHANGED << lowPromoted, projects, completedTasks, activeProjectId, isDataLoaded,
                    deletedItem, undoTimeoutRef, undoTimeouts, toastRendered, today,
                    nextId,
                    activeEffectDue >>

\* midnight passes; no effect depends on the date
dayPasses ==
    /\ Settled
    /\ today < MaxDay
    /\ today' = today + 1
    /\ lastOp' = "dayPasses"
    /\ reverted' = {}
    /\ overwritten' = NoItem
    /\ UNCHANGED localVars
    /\ UNCHANGED persisted
    /\ UNCHANGED << lowPromoted, projects, completedTasks, activeProjectId, settings,
                    isDataLoaded, deletedItem, undoTimeoutRef, undoTimeouts, toastRendered,
                    nextId, activeEffectDue, priorityEffectDue >>

----------------------------------------------------------------------------
(* Spec: the session-storage variant, data loaded and one project added,  *)
(* with the task and settings inputs the priority engine reads             *)
----------------------------------------------------------------------------

\* the state after mount, fetchData and one handleAddProject
Init ==
    /\ projects = << [id |-> 1, tasks |-> << >>] >>
    /\ completedTasks = << >>
    /\ activeProjectId = 1
    /\ settings = defaultSettings
    /\ isDataLoaded = TRUE
    /\ deletedItem = NoItem
    /\ undoTimeoutRef = FALSE
    /\ undoTimeouts = {}
    /\ overwritten = NoItem
    /\ toastRendered = FALSE
    /\ today = 0
    /\ nextId = [project |-> 1, task |-> 0]
    /\ activeEffectDue = FALSE
    /\ priorityEffectDue = FALSE
    /\ lastOp = "handleAddProject"
    /\ lowPromoted = {}
    /\ reverted = {}
    /\ localIdle
    /\ variant = "session"

FormDueDates == {Absent, 2}
FormPromoteDates == {1}
PriorityForms == taskForms(FormDueDates, {Absent}, FormPromoteDates, {Absent})
PrioritySettings == settingsForms({24, 48}, {{}, {2}}, {FALSE})

Next ==
    \/ runEffects
    \/ \E f \in PriorityForms : handleAddTask(f)
    \/ \E t \in activeTasks, f \in PriorityForms : handleEditTask(t, f)
    \/ \E t \in activeTasks : handleDeleteTask(t)
    \/ handleUndo
    \/ undoTimeout
    \/ toastUnmount
    \/ \E s \in PrioritySettings : handleSaveSettings(s)
    \/ dayPasses

Spec == Init /\ [][Next]_vars

----------------------------------------------------------------------------
(* Claims about the priority engine, checked under Spec *)

\* a step of the auto-priority effect starts in such a state
PassDue == priorityEffectDue /\ isDataLoaded

TaskPositions ==
    { <<i, j>> \in (1..Len(projects)) \X (1..MaxTasks + 1) :
        j <= Len(projects[i].tasks) }

\* C1: a second pass of the auto-priority effect over the result of a first
\* pass changes no task field, whatever the tasks, settings and date
C1_Idempotence ==
    LET once == autoPriorityPass(projects, settings, today)
    IN  autoPriorityPass(once, settings, today) = once

\* a promoted task that still meets the promotion condition, after the pass
C1_Witness ==
    /\ Settled
    /\ settings.isAutoPriorityModeEnabled
    /\ \E t \in AllTasks(projects) :
          /\ t.priority = "High"
          /\ t.originalPriority = "Medium"
          /\ t.dueDate # Absent
          /\ shouldBePromoted(t, settings, today)

\* C2: when the mode is switched off, the pass that follows leaves every
\* task that had base priority Medium and a due date at priority Medium
\* with no originalPriority
C2_Reversibility ==
    [][ (PassDue /\ lastOp = "handleSaveSettings:turnedOff") =>
          \A pos \in TaskPositions :
            LET t == projects[pos[1]].tasks[pos[2]]
                u == projects'[pos[1]].tasks[pos[2]]
            IN  (basePriority(t) = "Medium" /\ t.dueDate # Absent) =>
                  (u.priority = "Medium" /\ u.originalPriority = "none") ]_vars

\* the mode was switched off and the pass that followed has reverted a
\* promoted task to Medium
C2_Witness ==
    /\ Settled
    /\ lastOp = "handleSaveSettings:turnedOff"
    /\ \E t \in AllTasks(projects) :
          /\ t.id \in reverted
          /\ t.dueDate # Absent
          /\ t.priority = "Medium"
          /\ t.originalPriority = "none"

\* C3: once the effect has settled, a task has originalPriority set iff it
\* is High with originalPriority Medium
C3_OriginalPriorityIffPromoted ==
    (Settled /\ isDataLoaded) =>
        \A t \in AllTasks(projects) :
            (t.originalPriority # "none") <=>
                (t.priority = "High" /\ t.originalPriority = "Medium")

\* C4: a pass turns a Low task whose autoPromoteDate has come into a task of
\* base priority Medium without autoPromoteDate, whatever the mode; it
\* leaves other Low tasks to the second step (and unchanged when they
\* carry no originalPriority); and it does so once per autoPromoteDate set
C4_OneShotLowToMedium ==
    [][ PassDue =>
          \A pos \in TaskPositions :
            LET t == projects[pos[1]].tasks[pos[2]]
                u == projects'[pos[1]].tasks[pos[2]]
                isDue == /\ t.priority = "Low"
                         /\ t.autoPromoteDate # Absent
                         /\ t.autoPromoteDate <= today
            IN  /\ isDue =>
                     /\ lowToMedium(t, today).priority = "Medium"
                     /\ u.autoPromoteDate = Absent
                     /\ u.priority # "Low"
                     /\ basePriority(u) = "Medium"
                     /\ t.id \notin lowPromoted
                /\ (t.priority = "Low" /\ ~isDue) =>
                     /\ lowToMedium(t, today) = t
                     /\ u.autoPromoteDate = t.autoPromoteDate
                     /\ t.originalPriority = "none" => u = t ]_vars

\* the Low -> Medium step has fired on a task while the mode was off
C4_Witness ==
    /\ Settled
    /\ ~settings.isAutoPriorityModeEnabled
    /\ \E t \in AllTasks(projects) :
          /\ t.id \in lowPromoted
          /\ t.priority = "Medium"
          /\ t.autoPromoteDate = Absent

\* shouldPromote of the engine's description: the mode is on and the due
\* date is within the window or on a selected weekday
specShouldPromote(t) ==
    /\ settings.isAutoPriorityModeEnabled
    /\ t.dueDate # Absent
    /\ shouldBePromoted(t, settings, today)

\* C5: a pass reverts every task that has originalPriority set and does not
\* meet the promotion condition (mode off, due date outside the window on
\* an unselected weekday, or no due date)
C5_RevertWhenNotPromotable ==
    [][ PassDue =>
          \A pos \in TaskPositions :
            LET t == projects[pos[1]].tasks[pos[2]]
                u == projects'[pos[1]].tasks[pos[2]]
            IN  (t.originalPriority # "none" /\ ~specShouldPromote(t)) =>
                  (u.priority = t.originalPriority
                     /\ u.originalPriority = "none") ]_vars

\* C6: after a pass a task is High with originalPriority Medium exactly
\* when the mode is on, its base priority is Medium, it has a due date and
\* the date is within the window or on a selected weekday; tasks of base
\* priority Low or High are not touched by the second step
C6_PromotionRule ==
    [][ PassDue =>
          \A pos \in TaskPositions :
            LET t == lowToMedium(projects[pos[1]].tasks[pos[2]], today)
                u == projects'[pos[1]].tasks[pos[2]]
            IN  /\ (u.priority = "High" /\ u.originalPriority = "Medium") <=>
                      (basePriority(t) = "Medium" /\ specShouldPromote(t))
                /\ basePriority(t) # "Medium" => u = t ]_vars

----------------------------------------------------------------------------
(* Session-storage variant: deleting and undoing, from the first render *)

\* Sidebar onSelectProject
handleSelectProject(id) ==
    /\ Settled
    /\ HasId(projects, id)
    /\ id # activeProjectId
    /\ activeProjectId' = id
    /\ activeEffectDue' = TRUE
    /\ lastOp' = "handleSelectProject"
    /\ reverted' = {}
    /\ overwritten' = NoItem
    /\ UNCHANGED localVars
    /\ UNCHANGED persisted
    /\ UNCHANGED << lowPromoted, projects, completedTasks, settings, isDataLoaded,
                    deletedItem, undoTimeoutRef, undoTimeouts, toastRendered, today,
                    nextId,
                    priorityEffectDue >>

\* a task form with the defaults of the add dialog
PlainForms ==
    { f \in taskForms({Absent}, {Absent}, {}, {Absent}) : f.priority = "Medium" }

NextUndo ==
    \/ fetchData
    \/ runEffects
    \/ handleAddProject
    \/ \E p \in Range(projects) : handleSelectProject(p.id)
    \/ \E p \in Range(projects) : handleDeleteProject(p.id)
    \/ \E f \in PlainForms : handleAddTask(f)
    \/ \E t \in activeTasks : handleDeleteTask(t)
    \/ \E t \in activeTasks : handleCompleteTask(t)
    \/ handleUndo
    \/ undoTimeout
    \/ toastUnmount

SpecUndo == InitMount /\ [][NextUndo]_vars

\* C7: handleDeleteProject followed by handleUndo gives back the project
\* list of before the delete; and whenever Undo restores a project, it
\* stands at the index it was deleted from, with the tasks it had, and the
\* other projects keep their order
C7_ProjectUndoRoundTrip ==
    [][ /\ (Settled /\ lastOp' = "handleDeleteProject") =>
              undoProjects(projects', deletedItem') = projects
        /\ (Settled /\ lastOp' = "handleUndo:project") =>
              /\ projects' = undoProjects(projects, deletedItem)
              /\ deletedItem.index < Len(projects')
              /\ projects'[deletedItem.index + 1] = deletedItem.item
              /\ withoutProject(projects', deletedItem.item.id) = projects
      ]_vars

\* Undo has put a project with a task back in front of another project
C7_Witness ==
    /\ Settled
    /\ lastOp = "handleUndo:project"
    /\ Len(projects) >= 2
    /\ projects[1].id = activeProjectId
    /\ projects[1].tasks # << >>

----------------------------------------------------------------------------
(* Local-storage variant (src/App.tsx): deletion is staged in itemToUndo and
   itemToDelete; projects keeps the item until the commit timer fires *)

\* the auto-priority effect of this variant, for one task
localPriorityTask(t, s, now) ==
    IF t.dueDate = Absent THEN t
    ELSE LET should == /\ basePriority(t) = "Medium"
                       /\ shouldBePromoted(t, s, now)
         IN  IF s.isAutoPriorityModeEnabled
             THEN IF should /\ t.priority # "High"
                  THEN [t EXCEPT !.priority = "High",
                                 !.originalPriority = basePriority(t)]
                  ELSE IF t.originalPriority # "none" /\ ~should
                       THEN revert(t)
                       ELSE t
             ELSE IF t.originalPriority # "none" THEN revert(t) ELSE t

\* the effect returns at once when the mode is off
localPriorityPass(ps, s, now) ==
    IF ~s.isAutoPriorityModeEnabled THEN ps
    ELSE [i \in 1..Len(ps) |->
            [ps[i] EXCEPT !.tasks =
                [j \in 1..Len(ps[i].tasks) |->
                    localPriorityTask(ps[i].tasks[j], s, now)]]]

\* useMemo projectsForDisplay
projectsForDisplayOf(ps, undo, del) ==
    LET itemBeingDeleted == IF undo # NoItem THEN undo ELSE del
    IN  IF itemBeingDeleted = NoItem THEN ps
        ELSE IF itemBeingDeleted.type = "project"
        THEN withoutProject(ps, itemBeingDeleted.item.id)
        ELSE [i \in 1..Len(ps) |->
                IF ps[i].id = itemBeingDeleted.projectId
                THEN withoutTask(ps[i], itemBeingDeleted.item.id)
                ELSE ps[i]]

projectsForDisplay == projectsForDisplayOf(projects, itemToUndo, itemToDelete)

\* useMemo activeProject: the tasks TaskBoard is given
activeTasksLocal ==
    IF HasId(projectsForDisplay, activeProjectId)
    THEN Range(find(projectsForDisplay, activeProjectId).tasks)
    ELSE {}

InitLocal ==
    /\ projects = << >>
    /\ completedTasks = << >>
    /\ activeProjectId = NoProject
    /\ settings = defaultSettings
    /\ isDataLoaded = FALSE
    /\ deletedItem = NoItem
    /\ undoTimeoutRef = FALSE
    /\ undoTimeouts = {}
    /\ overwritten = NoItem
    /\ toastRendered = FALSE
    /\ today = 0
    /\ nextId = [project |-> 0, task |-> 0]
    /\ activeEffectDue = TRUE
    /\ priorityEffectDue = TRUE
    /\ lastOp = "mount"
    /\ lowPromoted = {}
    /\ reverted = {}
    /\ localIdle
    /\ variant = "local"

\* the activeProjectId effect and the auto-priority effect, when due
runEffectsLocal ==
    /\ ~Settled
    /\ LET active1 == IF activeEffectDue
                      THEN activeProjectEffect(projects, activeProjectId)
                      ELSE activeProjectId
           projects1 == IF priorityEffectDue
                        THEN localPriorityPass(projects, settings, today)
                        ELSE projects
       IN  /\ activeProjectId' = active1
           /\ projects' = projects1
           /\ activeEffectDue' = (active1 # activeProjectId \/ projects1 # projects)
           /\ priorityEffectDue' = (projects1 # projects)
    /\ UNCHANGED << completedTasks, settings, toastRendered, today, nextId,
                    lastOp, lowPromoted, reverted >>
    /\ UNCHANGED sessionVars
    /\ UNCHANGED localVars

handleAddProjectLocal ==
    /\ Settled
    /\ nextId.project < MaxProjects
    /\ LET newProject == [id |-> nextId.project + 1, tasks |-> << >>]
       IN  /\ setProjects(Append(projects, newProject))
           /\ activeProjectId' = newProject.id
    /\ nextId' = [nextId EXCEPT !.project = @ + 1]
    /\ lastOp' = "handleAddProject"
    /\ UNCHANGED << completedTasks, settings, toastRendered, today,
                    lowPromoted, reverted >>
    /\ UNCHANGED sessionVars
    /\ UNCHANGED localVars

\* Sidebar onSelectProject, on a project of the list the Sidebar shows
handleSelectProjectLocal(id) ==
    /\ Settled
    /\ HasId(projectsForDisplay, id)
    /\ id # activeProjectId
    /\ activeProjectId' = id
    /\ activeEffectDue' = TRUE
    /\ lastOp' = "handleSelectProject"
    /\ UNCHANGED << projects, completedTasks, settings, toastRendered, today,
                    nextId, priorityEffectDue, lowPromoted, reverted >>
    /\ UNCHANGED sessionVars
    /\ UNCHANGED localVars

\* TaskBoard is rendered only when activeProject is not null
handleAddTaskLocal(f) ==
    /\ Settled
    /\ HasId(projectsForDisplay, activeProjectId)
    /\ nextId.task < MaxTasks
    /\ setProjects(replaceProject(projects, activeProjectId,
            LAMBDA c : [c EXCEPT !.tasks =
                            Append(c.tasks, newTask(nextId.task + 1, f))]))
    /\ nextId' = [nextId EXCEPT !.task = @ + 1]
    /\ lastOp' = "handleAddTask"
    /\ UNCHANGED << completedTasks, activeProjectId, settings, toastRendered,
                    today, lowPromoted, reverted >>
    /\ UNCHANGED sessionVars
    /\ UNCHANGED localVars

\* setItemToUndo(item); startUndoTimer(item): the pending timer, if any, is
\* cleared and a new one is set; projects is not touched
stageDeletion(item) ==
    /\ itemToUndo' = item
    /\ undoTimerRef' = item
    /\ undoTimers' = (undoTimers \ {undoTimerRef}) \cup {item}
    /\ toastRendered' = TRUE
    /\ doomed' = doomed \cup { << item.type, item.item.id >> }
    /\ UNCHANGED << itemToDelete, deleteTimer >>

handleDeleteProjectLocal(projectId) ==
    /\ Settled
    /\ HasId(projectsForDisplay, projectId)
    /\ stageDeletion([type |-> "project", item |-> find(projects, projectId)])
    /\ lastOp' = "handleDeleteProject"
    /\ UNCHANGED << projects, completedTasks, activeProjectId, settings, today,
                    nextId, activeEffectDue, priorityEffectDue, lowPromoted,
                    reverted >>
    /\ UNCHANGED sessionVars

handleDeleteTaskLocal(t) ==
    /\ Settled
    /\ t \in activeTasksLocal
    /\ stageDeletion([type |-> "task", item |-> t,
                      projectId |-> activeProjectId])
    /\ lastOp' = "handleDeleteTask"
    /\ UNCHANGED << projects, completedTasks, activeProjectId, settings, today,
                    nextId, activeEffectDue, priorityEffectDue, lowPromoted,
                    reverted >>
    /\ UNCHANGED sessionVars

\* Sidebar.handleDrop on the list it was given, then handleReorderProjects;
\* dragging is enabled when auto rotation is off, and sortedProjects is then
\* projectsForDisplay
handleReorderProjectsLocal(draggedIndex, targetIndex) ==
    /\ Settled
    /\ ~settings.isAutoRotationEnabled
    /\ draggedIndex # targetIndex
    /\ LET shown == projectsForDisplay
           draggedItem == shown[draggedIndex + 1]
           rest == SubSeq(shown, 1, draggedIndex)
                     \o SubSeq(shown, draggedIndex + 2, Len(shown))
       IN  setProjects(SpliceIn(rest, targetIndex, draggedItem))
    /\ lastOp' = "handleReorderProjects"
    /\ UNCHANGED << completedTasks, activeProjectId, settings, toastRendered,
                    today, nextId, lowPromoted, reverted >>
    /\ UNCHANGED sessionVars
    /\ UNCHANGED localVars

\* the 5000 ms callback of startUndoTimer, and the itemToDelete effect that
\* runs after it: the 300 ms timer closes over projects and activeProjectId
\* of that render.  A timer set 5000 ms ago cannot fire while a 300 ms timer
\* set later is pending
undoTimerFires ==
    /\ Settled
    /\ ~deleteTimer.armed
    /\ \E h \in undoTimers :
          /\ undoTimers' = undoTimers \ {h}
          /\ undoTimerRef' = IF undoTimerRef = h THEN NoItem ELSE undoTimerRef
          /\ itemToDelete' = h
          /\ deleteTimer' = [armed |-> TRUE, item |-> h,
                             projects |-> projects,
                             activeProjectId |-> activeProjectId]
    /\ itemToUndo' = NoItem
    /\ lastOp' = "undoTimer"
    /\ UNCHANGED << projects, completedTasks, activeProjectId, settings,
                    toastRendered, today, nextId, activeEffectDue,
                    priorityEffectDue, lowPromoted, reverted, doomed >>
    /\ UNCHANGED sessionVars

\* the 300 ms callback of the itemToDelete effect
deleteTimerFires ==
    /\ Settled
    /\ deleteTimer.armed
    /\ LET item == deleteTimer.item
       IN  IF item.type = "project"
           THEN LET updatedProjects ==
                        withoutProject(deleteTimer.projects, item.item.id)
                IN  /\ setProjects(updatedProjects)
                    /\ activeProjectId' =
                         IF deleteTimer.activeProjectId = item.item.id
                         THEN IF Len(updatedProjects) > 0
                              THEN updatedProjects[1].id
                              ELSE NoProject
                         ELSE activeProjectId
           ELSE /\ setProjects(replaceProject(projects, item.projectId,
                        LAMBDA p : withoutTask(p, item.item.id)))
                /\ UNCHANGED activeProjectId
    /\ itemToDelete' = NoItem
    /\ deleteTimer' = NoTimer
    /\ lastOp' = "deleteTimer"
    /\ UNCHANGED << completedTasks, settings, toastRendered, today, nextId,
                    lowPromoted, reverted, itemToUndo, undoTimerRef, doomed,
                    undoTimers >>
    /\ UNCHANGED sessionVars

\* the Undo button of the toast, clickable while the toast is in the DOM;
\* the cleanup of the itemToDelete effect clears the 300 ms timer
cancelUndoableDelete ==
    /\ Settled
    /\ toastRendered
    /\ undoTimerRef' = NoItem
    /\ undoTimers' = undoTimers \ {undoTimerRef}
    /\ itemToDelete' = NoItem
    /\ itemToUndo' = NoItem
    /\ deleteTimer' = NoTimer
    /\ doomed' = doomed \
         { << i.type, i.item.id >> : i \in {itemToUndo, itemToDelete} \ {NoItem} }
    /\ lastOp' = "cancelUndoableDelete"
    /\ UNCHANGED << projects, completedTasks, activeProjectId, settings,
                    toastRendered, today, nextId, activeEffectDue,
                    priorityEffectDue, lowPromoted, reverted >>
    /\ UNCHANGED sessionVars

\* UndoToast: setShouldRender(false) 300 ms after isVisible became false
toastUnmountLocal ==
    /\ Settled
    /\ toastRendered
    /\ itemToUndo = NoItem
    /\ toastRendered' = FALSE
    /\ lastOp' = "toastUnmount"
    /\ UNCHANGED << projects, completedTasks, activeProjectId, settings, today,
                    nextId, activeEffectDue, priorityEffectDue, lowPromoted,
                    reverted >>
    /\ UNCHANGED sessionVars
    /\ UNCHANGED localVars

NextLocal ==
    \/ runEffectsLocal
    \/ handleAddProjectLocal
    \/ \E p \in Range(projectsForDisplay) : handleSelectProjectLocal(p.id)
    \/ \E f \in PlainForms : handleAddTaskLocal(f)
    \/ \E p \in Range(projectsForDisplay) : handleDeleteProjectLocal(p.id)
    \/ \E t \in activeTasksLocal : handleDeleteTaskLocal(t)
    \/ \E i, j \in 0..(Len(projectsForDisplay) - 1) :
            handleReorderProjectsLocal(i, j)
    \/ undoTimerFires
    \/ deleteTimerFires
    \/ cancelUndoableDelete
    \/ toastUnmountLocal

SpecLocal == InitLocal /\ [][NextLocal]_vars

----------------------------------------------------------------------------
(* Claims about deleting and undoing in the local-storage variant, checked
   under SpecLocal *)

\* a step of cancelUndoableDelete (effects run only from unsettled states)
UndoClicked == Settled /\ lastOp' = "cancelUndoableDelete"

\* the id of a staged item is in a list handed to Sidebar or TaskBoard
idShown(ps, it) ==
    IF it.type = "project" THEN HasId(ps, it.item.id)
    ELSE \E t \in AllTasks(ps) : t.id = it.item.id

\* a staged item is in the list with the fields it was deleted with
itemShown(ps, it) ==
    IF it.type = "project" THEN it.item \in Range(ps)
    ELSE \E i \in 1..Len(ps) :
            ps[i].id = it.projectId /\ it.item \in Range(ps[i].tasks)

\* C8: once the 5 second timer has fired (itemToUndo is null again), a click
\* on Undo changes neither the project list nor the staged commit, and the
\* displayed lists stay as they are
C8_LateUndoIsNoOp ==
    [][ (UndoClicked /\ itemToUndo = NoItem) =>
          /\ projects' = projects
          /\ itemToDelete' = itemToDelete
          /\ deleteTimer' = deleteTimer
          /\ projectsForDisplay' = projectsForDisplay ]_vars

\* C9: an item that was deleted and not recovered by Undo is never in the
\* displayed lists again
C9_DeletedNeverReappears ==
    \A d \in doomed :
        ~idShown(projectsForDisplay, [type |-> d[1], item |-> [id |-> d[2]]])

\* C10: while a deletion is staged the item is in no displayed list, and a
\* click on Undo while it is staged puts it back in the displayed lists with
\* the fields it had
C10_PendingInvisibleRecoverable ==
    [][ /\ \A it \in {itemToUndo', itemToDelete'} \ {NoItem} :
              ~idShown(projectsForDisplay', it)
        /\ (UndoClicked /\ itemToUndo # NoItem) =>
              itemShown(projectsForDisplay', itemToUndo) ]_vars

----------------------------------------------------------------------------
(* Session-storage variant: the debounced save *)

\* dataToSave of the save effect (isSidebarOpen is not modelled)
dataToSave ==
    [ stored |-> TRUE, projects |-> projects, completedTasks |-> completedTasks,
      activeProjectId |-> activeProjectId, settings |-> settings ]

\* the 500 ms callback of the save effect.  The effect sets the timer anew
\* whenever one of its dependencies changes, so the callback runs with the
\* data of the current render; a callback that would write what is already
\* stored is left out.  The POST to the API may fail
saveData ==
    /\ Settled
    /\ isDataLoaded
    /\ localStorage # dataToSave
    /\ localStorage' = dataToSave
    /\ \E ok \in BOOLEAN : apiData' = IF ok THEN dataToSave ELSE apiData
    /\ lastOp' = "saveData"
    /\ reverted' = {}
    /\ overwritten' = NoItem
    /\ UNCHANGED localVars
    /\ UNCHANGED << lowPromoted, projects, completedTasks, activeProjectId, settings,
                    isDataLoaded, deletedItem, undoTimeoutRef, undoTimeouts, toastRendered,
                    today, nextId, activeEffectDue, priorityEffectDue >>

NextSave ==
    \/ NextUndo
    \/ saveData

SpecSave == InitMount /\ [][NextSave]_vars

\* what a stored UserData holds of a deleted item
storedHolds(data, d) ==
    IF d.type = "project" THEN d.item \in Range(data.projects)
    ELSE \E i \in 1..Len(data.projects) :
            /\ data.projects[i].id = d.projectId
            /\ d.item \in Range(data.projects[i].tasks)

\* C11: while the undo timer of a deletion is pending, no write to local
\* storage or to the API holds a project list without the deleted item
C11_NoSaveBeforeGracePeriodEnds ==
    [][ (Settled /\ lastOp' = "saveData" /\ deletedItem # NoItem) =>
          /\ storedHolds(localStorage', deletedItem)
          /\ apiData' # apiData => storedHolds(apiData', deletedItem) ]_vars

\* ------------------------------------------------------------------------
\* The timers of the undo window, in both variants of App

InitBoth == InitMount \/ InitLocal

\* the handlers of the local variant that create, select, delete and undo,
\* and its timers; projects keep the order they were added in
NextLocalUndo ==
    \/ runEffectsLocal
    \/ handleAddProjectLocal
    \/ \E p \in Range(projectsForDisplay) : handleSelectProjectLocal(p.id)
    \/ \E f \in PlainForms : handleAddTaskLocal(f)
    \/ \E p \in Range(projectsForDisplay) : handleDeleteProjectLocal(p.id)
    \/ \E t \in activeTasksLocal : handleDeleteTaskLocal(t)
    \/ undoTimerFires
    \/ deleteTimerFires
    \/ cancelUndoableDelete
    \/ toastUnmountLocal

NextBoth ==
    \/ variant = "session" /\ NextUndo
    \/ variant = "local" /\ NextLocalUndo

SpecBoth == InitBoth /\ [][NextBoth]_vars

\* the scheduled callbacks that were armed for an item other than the one
\* whose undo window is open (none is open when the slot holds NoItem)
staleTimers ==
    (undoTimeouts \ ({deletedItem} \ {NoItem}))
        \cup (undoTimers \ ({itemToUndo} \ {NoItem}))
        \cup (IF deleteTimer.armed /\ deleteTimer.item # itemToDelete
              THEN {deleteTimer.item} ELSE {})

\* C12: no scheduled timer callback belongs to a deletion that was undone
\* or that was replaced by a later deletion: every callback that can still
\* run was armed for the deletion that is pending now, so after Undo none is
\* left, and only a deletion's own timer can commit it or close its window
C12_TimerIsolation == staleTimers = {}

\* Undo was clicked for the second of two project deletions: project 1 stays
\* deleted, project 2 is back, and no callback is scheduled
C12_Witness ==
    /\ variant = "session"
    /\ lastOp = "handleUndo:project"
    /\ ~HasId(projects, 1)
    /\ HasId(projects, 2)
    /\ deletedItem = NoItem
    /\ undoTimeouts = {}

\* ------------------------------------------------------------------------
\* The single undo slot of the session variant

\* the projects and tasks a project list holds, as <<type, id>>
itemsOf(ps) ==
    { << "project", ps[i].id >> : i \in 1..Len(ps) }
        \cup { << "task", t.id >> : t \in AllTasks(ps) }

\* the projects and tasks a deleted item carries
itemsIn(d) ==
    IF d.type = "project" THEN itemsOf(<< d.item >>)
    ELSE IF d.type = "task" THEN { << "task", d.item.id >> }
    ELSE {}

\* C13: deletedItem is one slot. After a deletion made while an earlier one
\* was pending, the earlier item is not in the list and Undo does not bring
\* it back; the slot holds the item deleted last, Undo brings back exactly
\* that item, and the only scheduled timer is the one armed for it
C13_SingleSlotOverwrite ==
    overwritten # NoItem =>
        /\ deletedItem # NoItem
        /\ deletedItem # overwritten
        /\ itemsIn(overwritten) \cap itemsOf(projects) = {}
        /\ itemsIn(deletedItem) \cap itemsOf(projects) = {}
        /\ itemsOf(undoProjects(projects, deletedItem))
             = itemsOf(projects) \cup itemsIn(deletedItem)
        /\ itemsIn(overwritten) \cap itemsOf(undoProjects(projects, deletedItem))
             = {}
        /\ undoTimeouts = {deletedItem}

\* a project was deleted while a deleted task was pending
C13_Witness ==
    /\ Settled
    /\ overwritten # NoItem
    /\ overwritten.type = "task"
    /\ deletedItem.type = "project"
    /\ lastOp = "handleDeleteProject"

\* ------------------------------------------------------------------------
\* The selection after a project is deleted, in both variants of App

MaxSelectProjects == 3

\* a user with MaxSelectProjects empty projects, one of them selected
InitSelect ==
    /\ projects = [i \in 1..MaxSelectProjects |-> [id |-> i, tasks |-> << >>]]
    /\ completedTasks = << >>
    /\ activeProjectId \in 1..MaxSelectProjects
    /\ settings = defaultSettings
    /\ variant \in {"session", "local"}
    /\ isDataLoaded = (variant = "session")
    /\ deletedItem = NoItem
    /\ undoTimeoutRef = FALSE
    /\ undoTimeouts = {}
    /\ overwritten = NoItem
    /\ toastRendered = FALSE
    /\ today = 0
    /\ nextId = [project |-> MaxSelectProjects, task |-> 0]
    /\ activeEffectDue = TRUE
    /\ priorityEffectDue = TRUE
    /\ lastOp = "mount"
    /\ lowPromoted = {}
    /\ reverted = {}
    /\ localIdle

NextSelect ==
    \/ /\ variant = "session"
       /\ \/ runEffects
          \/ \E p \in Range(projects) : handleSelectProject(p.id)
          \/ \E p \in Range(projects) : handleDeleteProject(p.id)
          \/ handleUndo
          \/ undoTimeout
          \/ toastUnmount
    \/ /\ variant = "local"
       /\ \/ runEffectsLocal
          \/ \E p \in Range(projectsForDisplay) : handleSelectProjectLocal(p.id)
          \/ \E p \in Range(projectsForDisplay) : handleDeleteProjectLocal(p.id)
          \/ undoTimerFires
          \/ deleteTimerFires
          \/ cancelUndoableDelete
          \/ toastUnmountLocal

SpecSelect == InitSelect /\ [][NextSelect]_vars

\* the selection after project `id` is taken out of `ps`: the project now at
\* the index of the deleted one, or the last one, or none
nearestRemaining(ps, id) ==
    LET rest == withoutProject(ps, id)
    IN  IF Len(rest) = 0 THEN NoProject
        ELSE rest[Min(findIndex(ps, id), Len(rest) - 1) + 1].id

\* the step that takes a project out of `projects`: handleDeleteProject in
\* the session variant, the callback of the 300 ms timer in the local one
projectRemoved(id) ==
    /\ Settled
    /\ HasId(projects, id)
    /\ ~HasId(projects', id)
    /\ lastOp' \in {"handleDeleteProject", "deleteTimer"}

\* C14: when a project is deleted, the selection moves to the project at the
\* nearest remaining index if the deleted project was the selected one (to
\* none if no project is left), and stays as it is otherwise
C14_ActiveReassignment ==
    [][ \A id \in 1..MaxSelectProjects :
            projectRemoved(id) =>
                activeProjectId' = IF activeProjectId = id
                                   THEN nearestRemaining(projects, id)
                                   ELSE activeProjectId ]_vars

\* ------------------------------------------------------------------------
\* The ordering engine and the board (TaskBoard, Sidebar, sortedProjects)

\* task.estimatedTime || 0
timeOf(t) == IF t.estimatedTime = Absent THEN 0 ELSE t.estimatedTime

\* mutant: rule 3 is missing, tasks of one date compare equal
compareTasksWithoutTime(a, b) ==
    IF a.dueDate # Absent /\ b.dueDate = Absent THEN 0 - 1
    ELSE IF a.dueDate = Absent /\ b.dueDate # Absent THEN 1
    ELSE IF /\ a.dueDate # Absent
            /\ b.dueDate # Absent
            /\ getTime(a.dueDate) # getTime(b.dueDate)
    THEN getTime(a.dueDate) - getTime(b.dueDate)
    ELSE 0

\* mutant: rule 3 sorts the shorter task first
compareTasksTimeAscending(a, b) ==
    IF a.dueDate # Absent /\ b.dueDate = Absent THEN 0 - 1
    ELSE IF a.dueDate = Absent /\ b.dueDate # Absent THEN 1
    ELSE IF /\ a.dueDate # Absent
            /\ b.dueDate # Absent
            /\ getTime(a.dueDate) # getTime(b.dueDate)
    THEN getTime(a.dueDate) - getTime(b.dueDate)
    ELSE timeOf(a) - timeOf(b)

\* the comparator of sortTasks
compareTasks(a, b) ==
    IF a.dueDate # Absent /\ b.dueDate = Absent THEN 0 - 1
    ELSE IF a.dueDate = Absent /\ b.dueDate # Absent THEN 1
    ELSE IF /\ a.dueDate # Absent
            /\ b.dueDate # Absent
            /\ getTime(a.dueDate) # getTime(b.dueDate)
    THEN getTime(a.dueDate) - getTime(b.dueDate)
    ELSE timeOf(b) - timeOf(a)

\* Array.prototype.sort is stable: x, which comes after the elements of
\* `sorted` in the input, goes behind every element that does not compare
\* greater than it
insertTask(sorted, x) ==
    LET after == { i \in 1..Len(sorted) : compareTasks(sorted[i], x) > 0 }
        pos == IF after = {} THEN Len(sorted) + 1
               ELSE CHOOSE i \in after : \A j \in after : i <= j
    IN  SubSeq(sorted, 1, pos - 1) \o << x >> \o SubSeq(sorted, pos, Len(sorted))

RECURSIVE sortedPrefix(_, _)
sortedPrefix(tasks, n) ==
    IF n = 0 THEN << >>
    ELSE insertTask(sortedPrefix(tasks, n - 1), tasks[n])

sortTasks(tasks, isAutoRotationEnabled) ==
    IF ~isAutoRotationEnabled THEN tasks
    ELSE sortedPrefix(tasks, Len(tasks))

\* mutant: a task scheduled for today is not visible yet
isVisibleFromNextDay(t, now) == t.scheduledDate = Absent \/ t.scheduledDate < now

\* !t.scheduledDate || t.scheduledDate <= today
isVisible(t, now) == t.scheduledDate = Absent \/ t.scheduledDate <= now

\* t.scheduledDate && t.scheduledDate > today
isScheduled(t, now) == t.scheduledDate # Absent /\ t.scheduledDate > now

visibleTasks(project, now) ==
    SelectSeq(project.tasks, LAMBDA t : isVisible(t, now))

priorityColumn(project, now, priority) ==
    SelectSeq(visibleTasks(project, now), LAMBDA t : t.priority = priority)

\* what TaskBoard hands to its three PriorityColumns and to
\* ScheduledTasksModal
TaskBoard(project, isAutoRotationEnabled, now) ==
    [ rendered |-> TRUE,
      project |-> project,
      High |-> sortTasks(priorityColumn(project, now, "High"),
                         isAutoRotationEnabled),
      Medium |-> sortTasks(priorityColumn(project, now, "Medium"),
                           isAutoRotationEnabled),
      Low |-> sortTasks(priorityColumn(project, now, "Low"),
                        isAutoRotationEnabled),
      scheduled |-> SelectSeq(project.tasks, LAMBDA t : isScheduled(t, now)) ]

\* project.tasks after TaskBoard has run: sort works in place, on the copy
\* [...tasks] of an array that filter has built, so project.tasks is as before
tasksAfterSortTasks(project, isAutoRotationEnabled) == project.tasks

\* a render of TaskBoard, which App shows when activeProject is not null
renderTaskBoard ==
    /\ Settled
    /\ HasId(projects, activeProjectId)
    /\ board' = TaskBoard(find(projects, activeProjectId),
                          settings.isAutoRotationEnabled, today)
    /\ board' # board
    /\ projects' = replaceProject(projects, activeProjectId,
            LAMBDA p : [p EXCEPT !.tasks =
                tasksAfterSortTasks(p, settings.isAutoRotationEnabled)])
    /\ UNCHANGED << completedTasks, activeProjectId, settings,
                    isDataLoaded, deletedItem, undoTimeoutRef, toastRendered,
                    today, nextId, activeEffectDue, priorityEffectDue, lastOp,
                    lowPromoted, reverted, itemToUndo, itemToDelete,
                    undoTimerRef, deleteTimer, doomed, localStorage, apiData,
                    undoTimeouts, undoTimers, variant, overwritten, sidebar,
                    completeTimeouts, accountVars >>

\* the session variant, loaded and at rest, with the given projects
InitLoaded(ps, s, day) ==
    /\ projects = ps
    /\ completedTasks = << >>
    /\ activeProjectId = IF Len(ps) > 0 THEN ps[1].id ELSE NoProject
    /\ settings = s
    /\ variant = "session"
    /\ isDataLoaded = TRUE
    /\ deletedItem = NoItem
    /\ undoTimeoutRef = FALSE
    /\ undoTimeouts = {}
    /\ overwritten = NoItem
    /\ toastRendered = FALSE
    /\ today = day
    /\ nextId = [project |-> Len(ps), task |-> Cardinality(AllTasks(ps))]
    /\ activeEffectDue = FALSE
    /\ priorityEffectDue = FALSE
    /\ lastOp = "mount"
    /\ lowPromoted = {}
    /\ reverted = {}
    /\ localIdle

\* the tasks made from a sequence of forms, with ids 1, 2, ...
tasksFrom(fs) == [i \in DOMAIN fs |-> newTask(i, fs[i])]

\* ------------------------------------------------------------------------
\* sortTasks on one column

MaxSortTasks == 3

\* due dates 5 and 10 are 2024-01-05 and 2024-01-10
SortForms ==
    { f \in taskForms({Absent, 5, 10}, {Absent, 10, 30, 999}, {}, {Absent}) :
        f.priority = "Medium" }

InitSort ==
    \E k \in 0..MaxSortTasks, rot \in BOOLEAN :
        \E fs \in [1..k -> SortForms] :
            InitLoaded(<< [id |-> 1, tasks |-> tasksFrom(fs)] >>,
                       [defaultSettings EXCEPT !.isAutoRotationEnabled = rot],
                       0)

NextSort == renderTaskBoard

SpecSort == InitSort /\ [][NextSort]_vars

\* the orders a sequence can be given in
permutationsOf(seq) ==
    { [i \in 1..Len(seq) |-> seq[f[i]]] : f \in Permutations(1..Len(seq)) }

\* the three keys of the comparator
sortKey(t) == << t.dueDate, timeOf(t) >>

sortKeys(seq) == [i \in 1..Len(seq) |-> sortKey(seq[i])]

\* the tasks the Medium column was sorted from, auto-rotation being on
rotatedColumn ==
    IF board # NoRender /\ settings.isAutoRotationEnabled
    THEN priorityColumn(board.project, today, "Medium")
    ELSE << >>

\* C15 as stated: whatever order the tasks are given in, sortTasks returns
\* the sequence the column shows
C15_OrderingDeterminism ==
    (board # NoRender /\ settings.isAutoRotationEnabled) =>
        \A q \in permutationsOf(rotatedColumn) :
            sortTasks(q, TRUE) = board.Medium

\* C15 amended: whatever order the tasks are given in, sortTasks returns the
\* same sequence of sort keys, and the same sequence of tasks when no two
\* tasks agree on due date and estimated time
C15_DeterminismUpToTies ==
    (board # NoRender /\ settings.isAutoRotationEnabled) =>
        \A q \in permutationsOf(rotatedColumn) :
            /\ sortKeys(sortTasks(q, TRUE)) = sortKeys(board.Medium)
            /\ (\A i, j \in 1..Len(q) : i # j => sortKey(q[i]) # sortKey(q[j]))
                  => sortTasks(q, TRUE) = board.Medium

\* three tasks with three different keys, given in an order that is not the
\* sorted one, have been sorted
C15_Witness ==
    /\ board # NoRender
    /\ settings.isAutoRotationEnabled
    /\ Len(rotatedColumn) = 3
    /\ \A i, j \in 1..3 : i # j =>
            sortKey(rotatedColumn[i]) # sortKey(rotatedColumn[j])
    /\ board.Medium # rotatedColumn

\* where the task with this id stands in a sequence
positionOf(seq, id) == CHOOSE i \in 1..Len(seq) : seq[i].id = id

\* [{due 2024-01-10, est 30}, {no due, est 999}, {due 2024-01-05, est 10}]
exampleForms ==
    << [dueDate |-> 10, estimatedTime |-> 30],
       [dueDate |-> Absent, estimatedTime |-> 999],
       [dueDate |-> 5, estimatedTime |-> 10] >>

isExample(seq) ==
    /\ Len(seq) = 3
    /\ \A i \in 1..3 : /\ seq[i].id = i
                       /\ seq[i].dueDate = exampleForms[i].dueDate
                       /\ seq[i].estimatedTime = exampleForms[i].estimatedTime

\* C16: with auto-rotation on, the column is a permutation of the tasks it
\* was sorted from; a task with a due date stands before every task without
\* one, due dates ascend, within one due date (or without any) the estimated
\* times descend, a missing one counting as 0, tasks equal on these keys
\* keep their input order, and the example sorts to 01-05, 01-10, no date
C16_TaskComparator ==
    (board # NoRender /\ settings.isAutoRotationEnabled) =>
        LET given == rotatedColumn
            out == board.Medium
        IN  /\ Len(out) = Len(given)
            /\ Range(out) = Range(given)
            /\ \A i, j \in 1..Len(out) : i < j =>
                  LET a == out[i]
                      b == out[j]
                  IN  /\ b.dueDate # Absent => a.dueDate # Absent
                      /\ (a.dueDate # Absent /\ b.dueDate # Absent)
                            => a.dueDate <= b.dueDate
                      /\ a.dueDate = b.dueDate => timeOf(a) >= timeOf(b)
                      /\ sortKey(a) = sortKey(b)
                            => positionOf(given, a.id) < positionOf(given, b.id)
            /\ isExample(given) => [i \in 1..3 |-> out[i].id] = << 3, 1, 2 >>

\* the example of the specification has been sorted
C16_Witness ==
    /\ board # NoRender
    /\ settings.isAutoRotationEnabled
    /\ isExample(rotatedColumn)
    /\ [i \in 1..3 |-> board.Medium[i].dueDate] = << 5, 10, Absent >>

\* ------------------------------------------------------------------------
\* The project order and the badges of the sidebar

\* new Date('9999-12-31'), as a day number
FarFutureDay == 2932896

priorityValues(priority) ==
    IF priority = "High" THEN 3 ELSE IF priority = "Medium" THEN 2 ELSE 1

\* first forEach: the earliest due date among the first n tasks, or Absent
RECURSIVE earliestAmong(_, _)
earliestAmong(tasks, n) ==
    IF n = 0 THEN Absent
    ELSE LET earliestDueDate == earliestAmong(tasks, n - 1)
             task == tasks[n]
         IN  IF /\ task.dueDate # Absent
                /\ \/ earliestDueDate = Absent
                   \/ getTime(task.dueDate) < getTime(earliestDueDate)
             THEN task.dueDate
             ELSE earliestDueDate

\* mutant: the estimated time of a task of lower priority is not reset
RECURSIVE urgentAmongKeepsTime(_, _)
urgentAmongKeepsTime(tasks, n) ==
    IF n = 0 THEN [highestPriority |-> 0, timeForUrgentTask |-> 0]
    ELSE LET sofar == urgentAmongKeepsTime(tasks, n - 1)
             currentPriority == priorityValues(tasks[n].priority)
             currentTime == timeOf(tasks[n])
         IN  IF currentPriority > sofar.highestPriority
             THEN [highestPriority |-> currentPriority,
                   timeForUrgentTask |->
                      IF currentTime > sofar.timeForUrgentTask
                      THEN currentTime ELSE sofar.timeForUrgentTask]
             ELSE IF /\ currentPriority = sofar.highestPriority
                     /\ currentTime > sofar.timeForUrgentTask
             THEN [sofar EXCEPT !.timeForUrgentTask = currentTime]
             ELSE sofar

\* second forEach, over tasksToConsider
RECURSIVE urgentAmong(_, _)
urgentAmong(tasks, n) ==
    IF n = 0 THEN [highestPriority |-> 0, timeForUrgentTask |-> 0]
    ELSE LET sofar == urgentAmong(tasks, n - 1)
             currentPriority == priorityValues(tasks[n].priority)
             currentTime == timeOf(tasks[n])
         IN  IF currentPriority > sofar.highestPriority
             THEN [highestPriority |-> currentPriority,
                   timeForUrgentTask |-> currentTime]
             ELSE IF /\ currentPriority = sofar.highestPriority
                     /\ currentTime > sofar.timeForUrgentTask
             THEN [sofar EXCEPT !.timeForUrgentTask = currentTime]
             ELSE sofar

getProjectSortValue(project) ==
    IF Len(project.tasks) = 0
    THEN [earliestDueDate |-> FarFutureDay, highestPriority |-> 0,
          timeForUrgentTask |-> 0]
    ELSE LET found == earliestAmong(project.tasks, Len(project.tasks))
             earliestDueDate == IF found = Absent THEN FarFutureDay ELSE found
             tasksToConsider ==
                 SelectSeq(project.tasks, LAMBDA task :
                     IF earliestDueDate = FarFutureDay THEN TRUE
                     ELSE IF task.dueDate = Absent THEN FALSE
                     ELSE getTime(task.dueDate) = getTime(earliestDueDate))
             urgent == urgentAmong(tasksToConsider, Len(tasksToConsider))
         IN  [earliestDueDate |-> earliestDueDate,
              highestPriority |-> urgent.highestPriority,
              timeForUrgentTask |-> urgent.timeForUrgentTask]

\* the comparator of sortedProjects; getTime() of the two dates differs by
\* MsPerDay times the difference of the days
compareProjects(a, b) ==
    LET aValue == getProjectSortValue(a)
        bValue == getProjectSortValue(b)
    IN  IF aValue.earliestDueDate # bValue.earliestDueDate
        THEN aValue.earliestDueDate - bValue.earliestDueDate
        ELSE IF aValue.highestPriority # bValue.highestPriority
        THEN bValue.highestPriority - aValue.highestPriority
        ELSE bValue.timeForUrgentTask - aValue.timeForUrgentTask

\* Array.prototype.sort is stable, as in insertTask
insertProject(sorted, x) ==
    LET after == { i \in 1..Len(sorted) : compareProjects(sorted[i], x) > 0 }
        pos == IF after = {} THEN Len(sorted) + 1
               ELSE CHOOSE i \in after : \A j \in after : i <= j
    IN  SubSeq(sorted, 1, pos - 1) \o << x >> \o SubSeq(sorted, pos, Len(sorted))

RECURSIVE sortedProjectPrefix(_, _)
sortedProjectPrefix(ps, n) ==
    IF n = 0 THEN << >>
    ELSE insertProject(sortedProjectPrefix(ps, n - 1), ps[n])

sortedProjects(ps, isAutoRotationEnabled) ==
    IF ~isAutoRotationEnabled THEN ps
    ELSE sortedProjectPrefix(ps, Len(ps))

\* Sidebar.getProjectPriority, "none" for null
getProjectPriority(project, now) ==
    LET visible == visibleTasks(project, now)
    IN  IF Len(visible) = 0 THEN "none"
        ELSE IF \E i \in 1..Len(visible) : visible[i].priority = "High"
        THEN "High"
        ELSE IF \E i \in 1..Len(visible) : visible[i].priority = "Medium"
        THEN "Medium"
        ELSE IF \E i \in 1..Len(visible) : visible[i].priority = "Low"
        THEN "Low"
        ELSE "none"

\* mutant: a task due today counts as overdue
hasOverdueTasksFromToday(project, now) ==
    \E i \in 1..Len(project.tasks) :
        LET t == project.tasks[i]
        IN  IF t.scheduledDate # Absent /\ t.scheduledDate > now THEN FALSE
            ELSE IF t.dueDate = Absent THEN FALSE
            ELSE getTime(t.dueDate) <= getTime(now)

\* Sidebar.hasOverdueTasks; new Date(y, m - 1, d) < local midnight of today
hasOverdueTasks(project, now) ==
    \E i \in 1..Len(project.tasks) :
        LET t == project.tasks[i]
        IN  IF t.scheduledDate # Absent /\ t.scheduledDate > now THEN FALSE
            ELSE IF t.dueDate = Absent THEN FALSE
            ELSE getTime(t.dueDate) < getTime(now)

\* what Sidebar shows: the projects in the order it was given them, each
\* with its badge
Sidebar(ps, now) ==
    [ rendered |-> TRUE,
      projects |-> ps,
      badges |-> [i \in 1..Len(ps) |->
                    [priority |-> getProjectPriority(ps[i], now),
                     overdue |-> hasOverdueTasks(ps[i], now)]] ]

\* mutant: projects.sort(...) without the copy sorts the state array itself
projectsSortedInPlace(ps, isAutoRotationEnabled) ==
    sortedProjects(ps, isAutoRotationEnabled)

\* the projects array after sortedProjects has run: sort works in place, on
\* the copy [...projects], so the array in the state is as before
projectsAfterSortedProjects(ps, isAutoRotationEnabled) == ps

\* a render of <Sidebar projects={sortedProjects} .../>
renderSidebar ==
    /\ Settled
    /\ sidebar' = Sidebar(sortedProjects(projects,
                                         settings.isAutoRotationEnabled), today)
    /\ sidebar' # sidebar
    /\ projects' = projectsAfterSortedProjects(projects,
                                               settings.isAutoRotationEnabled)
    /\ UNCHANGED << completedTasks, activeProjectId, settings,
                    isDataLoaded, deletedItem, undoTimeoutRef, toastRendered,
                    today, nextId, activeEffectDue, priorityEffectDue, lastOp,
                    lowPromoted, reverted, itemToUndo, itemToDelete,
                    undoTimerRef, deleteTimer, doomed, localStorage, apiData,
                    undoTimeouts, undoTimers, variant, overwritten, board,
                    completeTimeouts, accountVars >>

MaxRotProjects == 2
MaxRotTasks == 2

\* the day the rotation is looked at
RotationDay == 1

\* five kinds of task: three due on day 2 that differ in priority and time,
\* one without due date that is scheduled for RotationDay, and one due on
\* day 1 that is scheduled for the day after RotationDay
RotationForms ==
    << [dueDate |-> 2, priority |-> "Low", estimatedTime |-> 60,
        autoPromoteDate |-> Absent, scheduledDate |-> Absent],
       [dueDate |-> 2, priority |-> "High", estimatedTime |-> 30,
        autoPromoteDate |-> Absent, scheduledDate |-> Absent],
       [dueDate |-> 2, priority |-> "High", estimatedTime |-> Absent,
        autoPromoteDate |-> Absent, scheduledDate |-> Absent],
       [dueDate |-> Absent, priority |-> "Medium", estimatedTime |-> Absent,
        autoPromoteDate |-> Absent, scheduledDate |-> RotationDay],
       [dueDate |-> 1, priority |-> "High", estimatedTime |-> 90,
        autoPromoteDate |-> Absent, scheduledDate |-> RotationDay + 1] >>

\* the choices of at most MaxRotTasks kinds, in the order of RotationForms
rotationChoices ==
    UNION { { c \in [1..k -> 1..Len(RotationForms)] :
                \A i, j \in 1..k : i < j => c[i] <= c[j] }
            : k \in 0..MaxRotTasks }

\* project number p with the tasks of choice c
rotationProject(p, c) ==
    [ id |-> p,
      tasks |-> [k \in 1..Len(c) |->
                    newTask((p - 1) * MaxRotTasks + k, RotationForms[c[k]])] ]

InitRotation ==
    \E n \in 1..MaxRotProjects, rot \in BOOLEAN :
        \E cs \in [1..n -> rotationChoices] :
            InitLoaded([p \in 1..n |-> rotationProject(p, cs[p])],
                       [defaultSettings EXCEPT !.isAutoRotationEnabled = rot],
                       RotationDay)

NextRotation == renderSidebar

SpecRotation == InitRotation /\ [][NextRotation]_vars

\* the greatest element of a non-empty set of numbers
Greatest(S) == CHOOSE x \in S : \A y \in S : y <= x

\* the keys of a project as the claim defines them, over all of its tasks
claimedKey(project) ==
    LET all == Range(project.tasks)
        dues == { t.dueDate : t \in { u \in all : u.dueDate # Absent } }
        earliest == IF dues = {} THEN FarFutureDay
                    ELSE CHOOSE d \in dues : \A e \in dues : d <= e
        sharing == IF dues = {} THEN all
                   ELSE { t \in all : t.dueDate = earliest }
        highest == IF all = {} THEN 0
                   ELSE Greatest({ priorityValues(t.priority) : t \in sharing })
        attaining == { t \in sharing : priorityValues(t.priority) = highest }
    IN  [ earliestDueDate |-> earliest,
          highestPriority |-> highest,
          timeForUrgentTask |-> IF attaining = {} THEN 0
                                ELSE Greatest({ timeOf(t) : t \in attaining }) ]

\* C17: with auto-rotation on, the sidebar shows the stored projects, each
\* once, by ascending earliestDueDate, then descending highestPriority, then
\* descending timeForUrgentTask, the keys being those of claimedKey, and
\* projects equal on the three keys stand in their stored order
C17_ProjectOrdering ==
    (sidebar # NoRender /\ settings.isAutoRotationEnabled) =>
        LET out == sidebar.projects
        IN  /\ Len(out) = Len(projects)
            /\ Range(out) = Range(projects)
            /\ \A i, j \in 1..Len(out) : i < j =>
                  LET a == claimedKey(out[i])
                      b == claimedKey(out[j])
                  IN  /\ a.earliestDueDate <= b.earliestDueDate
                      /\ a.earliestDueDate = b.earliestDueDate
                            => a.highestPriority >= b.highestPriority
                      /\ ( /\ a.earliestDueDate = b.earliestDueDate
                           /\ a.highestPriority = b.highestPriority )
                            => a.timeForUrgentTask >= b.timeForUrgentTask
                      /\ a = b => positionOf(projects, out[i].id)
                                    < positionOf(projects, out[j].id)

\* the sidebar shows the second project first because, of its two tasks
\* due on the earliest day, the one of high priority takes less time
C17_Witness ==
    /\ sidebar # NoRender
    /\ settings.isAutoRotationEnabled
    /\ Len(projects) = 2
    /\ sidebar.projects[1] = projects[2]
    /\ Len(projects[1].tasks) = 2
    /\ Len(projects[2].tasks) = 2
    /\ claimedKey(projects[1]).earliestDueDate
         = claimedKey(projects[2]).earliestDueDate
    /\ claimedKey(projects[1]).highestPriority
         = claimedKey(projects[2]).highestPriority
    /\ claimedKey(projects[1]).timeForUrgentTask
         < claimedKey(projects[2]).timeForUrgentTask

idsOf(seq) == [k \in 1..Len(seq) |-> seq[k].id]

\* C18: with auto-rotation on, the order of the projects is the order they
\* would have without any one task that is scheduled for a day after today
C18_ScheduledTasksIgnored ==
    (sidebar # NoRender /\ settings.isAutoRotationEnabled) =>
        \A i \in 1..Len(projects) :
            \A t \in { u \in Range(projects[i].tasks) : isScheduled(u, today) } :
                idsOf(sortedProjects(
                        replaceProject(projects, projects[i].id,
                                       LAMBDA p : withoutTask(p, t.id)),
                        TRUE))
                  = idsOf(sidebar.projects)

\* ------------------------------------------------------------------------
\* The columns of the board

MaxBoardTasks == 3

BoardForms == taskForms({Absent}, {Absent}, {}, {Absent} \cup (0..MaxDay + 1))

InitBoard ==
    \E k \in 0..MaxBoardTasks, rot \in BOOLEAN, day \in 0..MaxDay :
        \E fs \in [1..k -> BoardForms] :
            InitLoaded(<< [id |-> 1, tasks |-> tasksFrom(fs)] >>,
                       [defaultSettings EXCEPT !.isAutoRotationEnabled = rot],
                       day)

NextBoard == renderTaskBoard

SpecBoard == InitBoard /\ [][NextBoard]_vars

boardLists == {"High", "Medium", "Low", "scheduled"}

\* the lists of the board a task is shown in
listsShowing(t) == { c \in boardLists : t \in Range(board[c]) }

\* C19: every task of the project is shown once, in one list of the board:
\* in the scheduled list if it has a scheduledDate after today, and in the
\* column of its priority otherwise
C19_BoardPartition ==
    board # NoRender =>
        /\ \A t \in Range(board.project.tasks) :
              listsShowing(t) =
                  IF t.scheduledDate # Absent /\ t.scheduledDate > today
                  THEN {"scheduled"}
                  ELSE {t.priority}
        /\ Len(board.High) + Len(board.Medium) + Len(board.Low)
             + Len(board.scheduled) = Len(board.project.tasks)

\* a task scheduled for today stands in its column, one scheduled for
\* tomorrow in the scheduled list, one without scheduledDate in its column
C19_Witness ==
    /\ board # NoRender
    /\ \E t \in Range(board.High) : t.scheduledDate = today
    /\ \E t \in Range(board.scheduled) : t.scheduledDate = today + 1
    /\ \E t \in Range(board.Low) : t.scheduledDate = Absent

\* ------------------------------------------------------------------------
\* The badges of the sidebar

MaxBadgeTasks == 2

\* the day the sidebar is looked at
BadgeDay == 1

\* due and scheduled the day before BadgeDay, on it, the day after, or not
BadgeForms ==
    taskForms({Absent, BadgeDay - 1, BadgeDay, BadgeDay + 1}, {Absent}, {},
              {Absent, BadgeDay - 1, BadgeDay, BadgeDay + 1})

InitBadge ==
    \E k \in 0..MaxBadgeTasks :
        \E fs \in [1..k -> BadgeForms] :
            InitLoaded(<< [id |-> 1, tasks |-> tasksFrom(fs)] >>,
                       defaultSettings, BadgeDay)

NextBadge == renderSidebar

SpecBadge == InitBadge /\ [][NextBadge]_vars

\* the tasks with scheduledDate absent or not after today
notLater(project) ==
    { t \in Range(project.tasks) :
        t.scheduledDate = Absent \/ t.scheduledDate <= today }

\* C20: the badge of a project says overdue exactly if one of its tasks with
\* scheduledDate absent or not after today has a due date before today, and
\* its priority is the highest priority among those tasks, or none
C20_SidebarBadge ==
    sidebar # NoRender =>
        \A i \in 1..Len(sidebar.projects) :
            LET shown == notLater(sidebar.projects[i])
                badge == sidebar.badges[i]
            IN  /\ badge.overdue
                     = (\E t \in shown : t.dueDate # Absent /\ t.dueDate < today)
                /\ IF shown = {} THEN badge.priority = "none"
                   ELSE /\ badge.priority \in { t.priority : t \in shown }
                        /\ \A t \in shown : priorityValues(t.priority)
                                              <= priorityValues(badge.priority)

\* a project whose only task due before today is scheduled for tomorrow and
\* of high priority, and whose other task is due today: not overdue, and
\* the badge has the other task's priority
C20_Witness ==
    /\ sidebar # NoRender
    /\ Len(sidebar.projects) = 1
    /\ \E t \in Range(projects[1].tasks) :
          /\ t.dueDate = today - 1
          /\ t.scheduledDate = today + 1
          /\ t.priority = "High"
    /\ \E t \in Range(projects[1].tasks) :
          /\ t.dueDate = today
          /\ t.scheduledDate = today
          /\ t.priority = "Low"
    /\ ~sidebar.badges[1].overdue
    /\ sidebar.badges[1].priority = "Low"

\* ------------------------------------------------------------------------
\* Stored order and displayed order

\* two tasks of one column that the rotation shows in the other order, and a
\* task that puts its project in front of a project that holds the other two
ViewForms ==
    << [dueDate |-> 2, priority |-> "Medium", estimatedTime |-> 30,
        autoPromoteDate |-> Absent, scheduledDate |-> Absent],
       [dueDate |-> 2, priority |-> "Medium", estimatedTime |-> 60,
        autoPromoteDate |-> Absent, scheduledDate |-> Absent],
       [dueDate |-> 1, priority |-> "High", estimatedTime |-> 30,
        autoPromoteDate |-> Absent, scheduledDate |-> Absent] >>

viewChoices ==
    UNION { { c \in [1..k -> 1..Len(ViewForms)] :
                \A i, j \in 1..k : i < j => c[i] <= c[j] }
            : k \in 0..MaxRotTasks }

viewProject(p, c) ==
    [ id |-> p,
      tasks |-> [k \in 1..Len(c) |->
                    newTask((p - 1) * MaxRotTasks + k, ViewForms[c[k]])] ]

InitView ==
    \E n \in 1..MaxRotProjects, rot \in BOOLEAN :
        \E cs \in [1..n -> viewChoices] :
            InitLoaded([p \in 1..n |-> viewProject(p, cs[p])],
                       [defaultSettings EXCEPT !.isAutoRotationEnabled = rot],
                       RotationDay)

\* the settings dialog saved with the rotation switched on or off
RotationSettings == settingsForms({24}, {{}}, BOOLEAN)

NextView ==
    \/ runEffects
    \/ renderTaskBoard
    \/ renderSidebar
    \/ \E newSettings \in RotationSettings :
          /\ ~newSettings.isAutoPriorityModeEnabled
          /\ handleSaveSettings(newSettings)

SpecView == InitView /\ [][NextView]_vars

MaxClicks == 2

\* TaskCard.handleComplete: a click on the checkbox of a card of the board.
\* The card stays in the DOM, and its checkbox clickable, until the callback
\* has removed the task; onComplete is handleCompleteTask of the render the
\* card comes from, which closes over projects and activeProjectId
TaskCardHandleComplete(t) ==
    /\ Settled
    /\ activeProjectId # NoProject
    /\ t \in activeTasks
    /\ Len(completedTasks) + Len(completeTimeouts) < MaxClicks
    /\ completeTimeouts' =
          Append(completeTimeouts,
                 [projects |-> projects, activeProjectId |-> activeProjectId,
                  taskId |-> t.id])
    /\ lastOp' = "TaskCard.handleComplete"
    /\ reverted' = {}
    /\ overwritten' = NoItem
    /\ UNCHANGED << itemToUndo, itemToDelete, undoTimerRef, deleteTimer,
                    doomed, undoTimers, variant, board, sidebar,
                    accountVars >>
    /\ UNCHANGED persisted
    /\ UNCHANGED << projects, completedTasks, activeProjectId, settings,
                    isDataLoaded, deletedItem, undoTimeoutRef, undoTimeouts,
                    toastRendered, today, nextId, activeEffectDue,
                    priorityEffectDue, lowPromoted >>

\* the timeout of TaskCard.handleComplete fires: handleCompleteTask(taskId)
\* runs with the projects and activeProjectId of its render; completedTasks
\* is set through a functional update, projects from the closure
completeTimeout ==
    /\ completeTimeouts # << >>
    /\ LET h == Head(completeTimeouts)
           found == /\ h.activeProjectId # NoProject
                    /\ HasId(h.projects, h.activeProjectId)
                    /\ HasId(find(h.projects, h.activeProjectId).tasks,
                             h.taskId)
       IN  IF found
           THEN LET project == find(h.projects, h.activeProjectId)
                    taskToComplete == find(project.tasks, h.taskId)
                IN  /\ completedTasks' =
                          << completedTask(taskToComplete, project.id) >>
                              \o completedTasks
                    /\ setProjects(replaceProject(h.projects,
                            h.activeProjectId,
                            LAMBDA p : withoutTask(p, h.taskId)))
           ELSE UNCHANGED << projects, completedTasks, activeEffectDue,
                             priorityEffectDue >>
    /\ completeTimeouts' = Tail(completeTimeouts)
    /\ lastOp' = "handleCompleteTask"
    /\ reverted' = {}
    /\ overwritten' = NoItem
    /\ UNCHANGED << itemToUndo, itemToDelete, undoTimerRef, deleteTimer,
                    doomed, undoTimers, variant, board, sidebar,
                    accountVars >>
    /\ UNCHANGED persisted
    /\ UNCHANGED << activeProjectId, settings, isDataLoaded, deletedItem,
                    undoTimeoutRef, undoTimeouts, toastRendered, today,
                    nextId, lowPromoted >>

NextComplete ==
    \/ fetchData
    \/ runEffects
    \/ handleAddProject
    \/ \E p \in Range(projects) : handleDeleteProject(p.id)
    \/ \E f \in PlainForms : handleAddTask(f)
    \/ \E t \in activeTasks : handleDeleteTask(t)
    \/ \E t \in activeTasks : TaskCardHandleComplete(t)
    \/ completeTimeout
    \/ handleUndo
    \/ undoTimeout
    \/ toastUnmount

SpecComplete == InitMount /\ [][NextComplete]_vars

\* how often a task id occurs in the task lists of the projects and in
\* completedTasks together
occurrences(id) ==
    Cardinality({ pi \in UNION { { << p, i >> : i \in DOMAIN projects[p].tasks }
                                 : p \in DOMAIN projects } :
                    projects[pi[1]].tasks[pi[2]].id = id })
        + Cardinality({ i \in DOMAIN completedTasks :
                          completedTasks[i].id = id })

\* C22: every task id occurs at most once over the task lists of all
\* projects and completedTasks together
C22_TaskInOnePlace ==
    \A id \in 1..nextId.task : occurrences(id) <= 1

\* ------------------------------------------------------------------------
\* Accounts: sign-up and handleUpdateUser

\* accounts created in one run
MaxUsers == 2

\* `local_hash_${pw}` and `hashed_${pw}`
localHash(pw) == << "local_hash_", pw >>
fakeHash(pw) == << "hashed_", pw >>

verifyPassword(inputPassword, storedHash) ==
    storedHash = fakeHash(inputPassword) \/ storedHash = localHash(inputPassword)

\* String.prototype.toLowerCase on the addresses used here
toLowerCase(email) == IF email = "Bob@x" THEN "bob@x" ELSE email

\* a field of `updates` that was not given; '' and undefined are both falsy
NotGiven == ""

withoutHash(user) == [k \in DOMAIN user \ {"passwordHash"} |-> user[k]]

kvSet(store, key, value) ==
    [k \in DOMAIN store \cup {key} |-> IF k = key THEN value ELSE store[k]]

kvDel(store, key) == [k \in DOMAIN store \ {key} |-> store[k]]

\* the id generateId returns: one that no user has
generateId == Len(localUsers) + Cardinality(DOMAIN kv) + 1

\* handlePost of the API, sign-up branch
handlePost(store, name, email, password) ==
    LET userKey == toLowerCase(email)
        newUser == [id |-> generateId, name |-> name,
                    email |-> toLowerCase(email),
                    passwordHash |-> fakeHash(password),
                    profilePicture |-> NotGiven]
    IN  IF userKey \in DOMAIN store
        THEN [status |-> 409, kv |-> store]
        ELSE [status |-> 201, kv |-> kvSet(store, userKey, newUser),
              user |-> withoutHash(newUser)]

\* AuthModal.handleCreatePassword: sign-up at the API and, when the API fails
\* or refuses, the local fallback performLocalAuthAction('signup')
handleCreatePassword(name, email, password, api) ==
    /\ currentUser = NoUser
    /\ generateId <= MaxUsers
    /\ LET response == handlePost(kv, name, email, password)
           taken == \E i \in 1..Len(localUsers) :
                        toLowerCase(localUsers[i].email) = toLowerCase(email)
           newUser == [id |-> generateId, name |-> name,
                       email |-> toLowerCase(email),
                       passwordHash |-> localHash(password),
                       profilePicture |-> NotGiven]
       IN  IF api = "json" /\ response.status = 201
           THEN /\ kv' = response.kv
                /\ currentUser' = response.user
                /\ UNCHANGED localUsers
           ELSE /\ kv' = kv
                /\ IF taken
                   THEN UNCHANGED << localUsers, currentUser >>
                   ELSE /\ localUsers' = Append(localUsers, newUser)
                        /\ currentUser' = newUser
    /\ lastOp' = "handleCreatePassword"
    /\ UNCHANGED updateResult
    /\ UNCHANGED << projects, completedTasks, activeProjectId, settings,
                    isDataLoaded, deletedItem, undoTimeoutRef, toastRendered,
                    today, nextId, activeEffectDue, priorityEffectDue,
                    lowPromoted, reverted, itemToUndo, itemToDelete,
                    undoTimerRef, deleteTimer, doomed, localStorage, apiData,
                    undoTimeouts, undoTimers, variant, overwritten, board,
                    sidebar, completeTimeouts >>

handleSignOut ==
    /\ currentUser # NoUser
    /\ currentUser' = NoUser
    /\ lastOp' = "handleSignOut"
    /\ UNCHANGED << localUsers, kv, updateResult >>
    /\ UNCHANGED << projects, completedTasks, activeProjectId, settings,
                    isDataLoaded, deletedItem, undoTimeoutRef, toastRendered,
                    today, nextId, activeEffectDue, priorityEffectDue,
                    lowPromoted, reverted, itemToUndo, itemToDelete,
                    undoTimerRef, deleteTimer, doomed, localStorage, apiData,
                    undoTimeouts, undoTimers, variant, overwritten, board,
                    sidebar, completeTimeouts >>

\* handlePatch of the API
handlePatch(store, userId, updates, currentPassword, email) ==
    LET lookupEmail == IF email # NotGiven THEN email ELSE updates.email
        userKey == toLowerCase(lookupEmail)
        user == store[userKey]
        moves == /\ updates.email # NotGiven
                 /\ toLowerCase(updates.email) # toLowerCase(user.email)
        newUserKey == toLowerCase(updates.email)
        patched ==
            [user EXCEPT
                !.email = IF moves THEN toLowerCase(updates.email) ELSE @,
                !.name = IF updates.name # NotGiven THEN updates.name ELSE @,
                !.passwordHash = IF updates.newPassword # NotGiven
                                 THEN fakeHash(updates.newPassword) ELSE @,
                !.profilePicture = IF updates.profilePicture # NotGiven
                                   THEN updates.profilePicture ELSE @]
    IN  IF lookupEmail = NotGiven THEN [status |-> 400, kv |-> store]
        ELSE IF userKey \notin DOMAIN store THEN [status |-> 404, kv |-> store]
        ELSE IF user.id # userId THEN [status |-> 403, kv |-> store]
        ELSE IF /\ \/ updates.name # NotGiven
                   \/ updates.email # NotGiven
                   \/ updates.newPassword # NotGiven
                /\ \/ currentPassword = NotGiven
                   \/ ~verifyPassword(currentPassword, user.passwordHash)
        THEN [status |-> 403, kv |-> store]
        ELSE IF moves /\ newUserKey \in DOMAIN store
        THEN [status |-> 409, kv |-> store]
        ELSE [status |-> 200,
              kv |-> kvSet(IF moves THEN kvDel(store, userKey) ELSE store,
                           patched.email, patched),
              user |-> withoutHash(patched)]

\* the local part of handleUpdateUser: `returned` if it has returned a
\* failure, else the users to store and whether the update was made
localUpdate(users, user, updates, currentPassword) ==
    LET index == findIndex(users, user.id)
        stored == users[index + 1]
        isValid == \/ stored.passwordHash = localHash(currentPassword)
                   \/ stored.passwordHash = fakeHash(currentPassword)
        inUse == \E i \in 1..Len(users) :
                    /\ users[i].id # stored.id
                    /\ toLowerCase(users[i].email) = toLowerCase(updates.email)
        updated ==
            [stored EXCEPT
                !.name = IF updates.name # NotGiven THEN updates.name ELSE @,
                !.email = IF updates.email # NotGiven THEN updates.email ELSE @,
                !.profilePicture = IF updates.profilePicture # NotGiven
                                   THEN updates.profilePicture ELSE @,
                !.passwordHash = IF updates.newPassword # NotGiven
                                 THEN localHash(updates.newPassword) ELSE @]
    IN  IF ~HasId(users, user.id)
        THEN [returned |-> FALSE, successful |-> FALSE, users |-> users,
              user |-> user]
        ELSE IF /\ updates.email # NotGiven \/ updates.newPassword # NotGiven
                /\ currentPassword # NotGiven
                /\ ~isValid
        THEN [returned |-> TRUE, successful |-> FALSE, users |-> users,
              user |-> user]
        ELSE IF updates.email # NotGiven /\ inUse
        THEN [returned |-> TRUE, successful |-> FALSE, users |-> users,
              user |-> user]
        ELSE [returned |-> FALSE, successful |-> TRUE,
              users |-> [users EXCEPT ![index + 1] = updated],
              user |-> updated]

\* handleUpdateUser(updates, currentPassword). api is what becomes of the
\* PATCH: "json" a JSON response, "timeout" handled by the server but
\* answered after 1500 ms, "failed" a network error, "notJson" an answer
\* that is not JSON
handleUpdateUser(updates, currentPassword, api) ==
    /\ currentUser # NoUser
    /\ LET local == localUpdate(localUsers, currentUser, updates,
                                currentPassword)
           response == handlePatch(kv, currentUser.id, updates,
                                   currentPassword, currentUser.email)
           success ==
               IF local.returned THEN FALSE
               ELSE IF api = "json" THEN response.status = 200
               ELSE local.successful
       IN  /\ localUsers' = local.users
           /\ kv' = IF ~local.returned /\ api \in {"json", "timeout"}
                    THEN response.kv ELSE kv
           /\ currentUser' =
                 IF ~local.returned /\ api = "json" /\ response.status = 200
                 THEN response.user
                 ELSE local.user
           /\ updateResult' = [called |-> TRUE, success |-> success,
                               updates |-> updates,
                               currentPassword |-> currentPassword]
    /\ lastOp' = "handleUpdateUser"
    /\ UNCHANGED << projects, completedTasks, activeProjectId, settings,
                    isDataLoaded, deletedItem, undoTimeoutRef, toastRendered,
                    today, nextId, activeEffectDue, priorityEffectDue,
                    lowPromoted, reverted, itemToUndo, itemToDelete,
                    undoTimerRef, deleteTimer, doomed, localStorage, apiData,
                    undoTimeouts, undoTimers, variant, overwritten, board,
                    sidebar, completeTimeouts >>

\* what the four dialogs of the account settings send: one field each
UpdateForms ==
    LET none == [name |-> NotGiven, email |-> NotGiven,
                 newPassword |-> NotGiven, profilePicture |-> NotGiven]
    IN  { [none EXCEPT !.name = "Bea"], [none EXCEPT !.email = "Bob@x"],
          [none EXCEPT !.newPassword = "pw2"],
          [none EXCEPT !.profilePicture = "pic"] }

Passwords == {"pw1", "pw2"}

ApiOutcomes == {"json", "timeout", "failed", "notJson"}

InitAccount == InitLoaded(<< >>, defaultSettings, 0)

NextAccount ==
    \/ \E email \in {"ann@x", "bob@x"}, api \in {"json", "failed"} :
          handleCreatePassword("Ann", email, "pw1", api)
    \/ handleSignOut
    \/ \E updates \in UpdateForms, currentPassword \in Passwords \cup {NotGiven},
          api \in ApiOutcomes :
          handleUpdateUser(updates, currentPassword, api)

SpecAccount == InitAccount /\ [][NextAccount]_vars

\* the password hashes stored for the logged-in user, locally and at the API
storedHashes ==
    { localUsers[i].passwordHash :
        i \in { j \in 1..Len(localUsers) : localUsers[j].id = currentUser.id } }
    \cup { kv[k].passwordHash :
             k \in { j \in DOMAIN kv : kv[j].id = currentUser.id } }

\* C23: a call of handleUpdateUser that changes name, email or password and
\* returns success was given a current password that matches the stored
\* one, and a call that returns failure leaves the locally stored users and
\* currentUser as they were
C23_UpdateUserNeedsPassword ==
    [][ lastOp' = "handleUpdateUser" =>
          /\ ( /\ updateResult'.success
               /\ \/ updateResult'.updates.name # NotGiven
                  \/ updateResult'.updates.email # NotGiven
                  \/ updateResult'.updates.newPassword # NotGiven )
                => \E h \in storedHashes :
                      verifyPassword(updateResult'.currentPassword, h)
          /\ ~updateResult'.success =>
                (localUsers' = localUsers /\ currentUser' = currentUser) ]_vars

\* ------------------------------------------------------------------------
\* The priority engine of the local-storage variant

\* handleEditTask of src/App.tsx: the task of the form replaces the stored
\* one, without originalPriority
handleEditTaskLocal(t, f) ==
    /\ Settled
    /\ activeProjectId # NoProject
    /\ t \in activeTasksLocal
    /\ LET finalUpdatedTask ==
               [editedTask(t, f) EXCEPT !.originalPriority = "none"]
       IN  setProjects(replaceProject(projects, activeProjectId,
               LAMBDA c : [c EXCEPT !.tasks =
                   MapSeq(c.tasks, LAMBDA u : IF u.id = finalUpdatedTask.id
                                              THEN finalUpdatedTask ELSE u)]))
    /\ lastOp' = "handleEditTask"
    /\ UNCHANGED << completedTasks, activeProjectId, settings, toastRendered,
                    today, nextId, lowPromoted, reverted >>
    /\ UNCHANGED sessionVars
    /\ UNCHANGED localVars

\* what the add dialog is given here: Medium, with or without due date
MediumForms ==
    { f \in taskForms(FormDueDates, {Absent}, {}, {Absent}) :
        f.priority = "Medium" }

\* the edit form saved with the priority it opened with
keptPriorityForms(t) ==
    { f \in taskForms(FormDueDates, {Absent}, {}, {Absent}) :
        f.priority = t.priority }

NextLocalPriority ==
    \/ runEffectsLocal
    \/ handleAddProjectLocal
    \/ \E f \in MediumForms : handleAddTaskLocal(f)
    \/ \E t \in activeTasksLocal :
          \E f \in keptPriorityForms(t) : handleEditTaskLocal(t, f)
    \/ \E s \in PrioritySettings : handleSaveSettings(s)

SpecLocalPriority == InitLocal /\ [][NextLocalPriority]_vars

\* C24: when the effects have settled after settings were saved that switch
\* the mode off, no task is left promoted: every task that was High with
\* originalPriority Medium is Medium again and has no originalPriority
C24_ModeOffReverts ==
    (variant = "local" /\ Settled /\ lastOp = "handleSaveSettings:turnedOff")
        => \A t \in AllTasks(projects) : t.originalPriority # "Medium"

\* the promotion condition of a task whose priority the user chose as Medium
promotionHolds(t) ==
    /\ t.dueDate # Absent
    /\ shouldBePromoted(t, settings, today)

\* C25: every task here was added as Medium and every edit form was saved
\* with the priority it showed; with the mode on and the effects settled, a
\* task whose promotion condition does not hold has priority Medium
C25_EditKeepsOriginalPriority ==
    (variant = "local" /\ Settled /\ settings.isAutoPriorityModeEnabled)
        => \A t \in AllTasks(projects) :
              ~promotionHolds(t) => t.priority = "Medium"

\* ------------------------------------------------------------------------
\* The auto-priority effect run on its own, pass after pass

MaxReconcileTasks == 1

\* mutant: the promotion branch without `newTask.priority !== Priority.High`
hasChangedWithoutPriorityTest(t, s, now) ==
    LET t1 == lowToMedium(t, now)
        should == shouldBePromoted(t1, s, now)
    IN  \/ /\ t.priority = "Low"
           /\ t.autoPromoteDate # Absent
           /\ getTime(now) >= getTime(t.autoPromoteDate)
        \/ IF s.isAutoPriorityModeEnabled
           THEN /\ basePriority(t1) = "Medium"
                /\ t1.dueDate # Absent
                /\ \/ should
                   \/ t1.originalPriority # "none" /\ ~should
           ELSE t1.originalPriority # "none"

\* hasChanged at the end of the body of p.tasks.map(t => ...), session
\* variant: set in the branches that make a new task
hasChanged(t, s, now) ==
    LET t1 == lowToMedium(t, now)
        should == shouldBePromoted(t1, s, now)
    IN  \/ /\ t.priority = "Low"
           /\ t.autoPromoteDate # Absent
           /\ getTime(now) >= getTime(t.autoPromoteDate)
        \/ IF s.isAutoPriorityModeEnabled
           THEN /\ basePriority(t1) = "Medium"
                /\ t1.dueDate # Absent
                /\ \/ should /\ t1.priority # "High"
                   \/ t1.originalPriority # "none" /\ ~should
           ELSE t1.originalPriority # "none"

\* hasChanged of the local-storage variant
hasChangedLocal(t, s, now) ==
    /\ t.dueDate # Absent
    /\ LET should == /\ basePriority(t) = "Medium"
                     /\ shouldBePromoted(t, s, now)
       IN  IF s.isAutoPriorityModeEnabled
           THEN \/ should /\ t.priority # "High"
                \/ t.originalPriority # "none" /\ ~should
           ELSE t.originalPriority # "none"

\* needsUpdate when the effect reaches `if (needsUpdate)`; the effect of the
\* local-storage variant has returned before if the mode is off
needsUpdate(ps, s, now, v) ==
    /\ v = "local" => s.isAutoPriorityModeEnabled
    /\ \E t \in AllTasks(ps) :
          IF v = "session" THEN hasChanged(t, s, now)
          ELSE hasChangedLocal(t, s, now)

PassLabels ==
    { "autoPriorityEffect:1", "autoPriorityEffect:2", "autoPriorityEffect:3" }

\* one run of the auto-priority effect. It runs again if and only if it has
\* called setProjects, which hands React a new array. lastOp counts the runs
\* in a row that have called setProjects. The activeProjectId effect runs
\* along and sets nothing, activeProjectId being the id of a project
autoPriorityEffect ==
    /\ priorityEffectDue
    /\ ~activeEffectDue
    /\ variant = "session" => isDataLoaded
    /\ LET needs == needsUpdate(projects, settings, today, variant)
           updatedProjects ==
               IF variant = "session"
               THEN autoPriorityPass(projects, settings, today)
               ELSE localPriorityPass(projects, settings, today)
       IN  /\ projects' = IF needs THEN updatedProjects ELSE projects
           /\ priorityEffectDue' = needs
           /\ lastOp' =
                 IF needs
                 THEN IF lastOp = "autoPriorityEffect:1"
                      THEN "autoPriorityEffect:2"
                      ELSE IF lastOp \in PassLabels
                      THEN "autoPriorityEffect:3"
                      ELSE "autoPriorityEffect:1"
                 ELSE IF lastOp \in PassLabels
                      THEN "autoPriorityEffect:settled"
                      ELSE "autoPriorityEffect:none"
    /\ UNCHANGED << completedTasks, activeProjectId, settings, isDataLoaded,
                    deletedItem, undoTimeoutRef, toastRendered, today, nextId,
                    activeEffectDue, lowPromoted, reverted, itemToUndo,
                    itemToDelete, undoTimerRef, deleteTimer, doomed,
                    localStorage, apiData, undoTimeouts, undoTimers, variant,
                    overwritten, board, sidebar, completeTimeouts,
                    accountVars >>

\* the combinations of the fields the effect reads that a task can have:
\* originalPriority is only ever set to the base priority Medium, and the
\* forms keep autoPromoteDate on Low tasks only
ReconcileTasks ==
    { t \in [ dueDate : FormDueDates, priority : Priorities,
              originalPriority : {"none", "Medium"}, estimatedTime : {Absent},
              autoPromoteDate : FormPromoteDates \cup {Absent},
              scheduledDate : {Absent} ] :
        t.autoPromoteDate # Absent => t.priority = "Low" }

\* any tasks, settings, date and variant, at the moment a change of projects
\* or settings has made the effect due
InitReconcile ==
    \E k \in 1..MaxReconcileTasks, s \in PrioritySettings, day \in 0..MaxDay,
       v \in {"session", "local"} :
        \E fs \in [1..k -> ReconcileTasks] :
            /\ projects =
                  << [ id |-> 1,
                       tasks |-> [i \in 1..k |->
                          [ id |-> i, dueDate |-> fs[i].dueDate,
                            priority |-> fs[i].priority,
                            originalPriority |-> fs[i].originalPriority,
                            estimatedTime |-> fs[i].estimatedTime,
                            autoPromoteDate |-> fs[i].autoPromoteDate,
                            scheduledDate |-> fs[i].scheduledDate ]] ] >>
            /\ completedTasks = << >>
            /\ activeProjectId = 1
            /\ settings = s
            /\ variant = v
            /\ isDataLoaded = TRUE
            /\ deletedItem = NoItem
            /\ undoTimeoutRef = FALSE
            /\ undoTimeouts = {}
            /\ overwritten = NoItem
            /\ toastRendered = FALSE
            /\ today = day
            /\ nextId = [project |-> 1, task |-> k]
            /\ activeEffectDue = FALSE
            /\ priorityEffectDue = TRUE
            /\ lastOp = "mount"
            /\ lowPromoted = {}
            /\ reverted = {}
            /\ localIdle

NextReconcile == autoPriorityEffect

SpecReconcile == InitReconcile /\ [][NextReconcile]_vars

\* C26: in both variants, from any tasks, settings and date, the effect
\* calls setProjects in at most one run in a row: the run that follows a
\* run that has called setProjects does not call it, so at most two runs
\* happen and the effect does not trigger itself again
C26_ReconciliationFixedPoint ==
    lastOp \notin {"autoPriorityEffect:2", "autoPriorityEffect:3"}

\* the effect has promoted a task in its first run and has called nothing in
\* its second, in the local-storage variant
C26_Witness ==
    /\ variant = "local"
    /\ lastOp = "autoPriorityEffect:settled"
    /\ ~priorityEffectDue
    /\ \E t \in AllTasks(projects) :
          t.priority = "High" /\ t.originalPriority = "Medium"

\* ------------------------------------------------------------------------
\* Drag reordering while a deletion is pending (local-storage variant,
\* checked under SpecLocal)

\* C27: a click on Undo that follows a drag reorder, made while the deletion
\* of a project or a task was pending, leaves the deleted project with its
\* tasks, or the deleted task, in the projects state
C27_ReorderKeepsUndo ==
    [][ ( /\ UndoClicked
          /\ itemToUndo # NoItem
          /\ lastOp = "handleReorderProjects" )
            => itemShown(projects', itemToUndo) ]_vars

\* C28: the commit of a project deletion takes that project out of the
\* projects state and leaves everything else in it as it is at the commit,
\* whatever was changed since the 5 second timer fired
C28_CommitRemovesOnlyThatProject ==
    [][ ( /\ deleteTimer.armed
          /\ deleteTimer.item.type = "project"
          /\ lastOp' = "deleteTimer" )
            => projects' = withoutProject(projects, deleteTimer.item.item.id)
      ]_vars

\* ------------------------------------------------------------------------
\* The priority the user chose in the edit form (session-storage variant,
\* checked under Spec)

\* the task the effect leaves when it has settled after a handler: one pass
\* (C1, C26), which the effect skips while the data is not loaded
settledTask(u) ==
    IF isDataLoaded THEN autoPriorityTask(u, settings, today) ELSE u

\* C29: when handleEditTask has stored a task with the priority P of the
\* form, and without a date for the timed Low -> Medium promotion, the base
\* priority of that task after the effect has settled is P
C29_EditedPriorityIsBase ==
    [][ (Settled /\ lastOp' = "handleEditTask") =>
          \A u \in AllTasks(projects') \ AllTasks(projects) :
              u.autoPromoteDate = Absent =>
                  basePriority(settledTask(u)) = u.priority ]_vars

\* ------------------------------------------------------------------------
\* The selection, in both variants

\* Sidebar.handleDrop and handleReorderProjects of the session variant: the
\* Sidebar is given sortedProjects, which is projects when auto rotation is
\* off, and dragging is enabled only then
handleReorderProjects(draggedIndex, targetIndex) ==
    /\ Settled
    /\ ~settings.isAutoRotationEnabled
    /\ draggedIndex # targetIndex
    /\ LET draggedItem == projects[draggedIndex + 1]
           rest == SubSeq(projects, 1, draggedIndex)
                     \o SubSeq(projects, draggedIndex + 2, Len(projects))
       IN  setProjects(SpliceIn(rest, targetIndex, draggedItem))
    /\ lastOp' = "handleReorderProjects"
    /\ reverted' = {}
    /\ overwritten' = NoItem
    /\ UNCHANGED localVars
    /\ UNCHANGED persisted
    /\ UNCHANGED << lowPromoted, completedTasks, activeProjectId, settings,
                    isDataLoaded, deletedItem, undoTimeoutRef, undoTimeouts,
                    toastRendered, today, nextId >>

NextActive ==
    \/ /\ variant = "session"
       /\ \/ fetchData
          \/ runEffects
          \/ handleAddProject
          \/ \E p \in Range(projects) : handleSelectProject(p.id)
          \/ \E p \in Range(projects) : handleDeleteProject(p.id)
          \/ \E i, j \in 0..(Len(projects) - 1) : handleReorderProjects(i, j)
          \/ handleUndo
          \/ undoTimeout
          \/ toastUnmount
    \/ /\ variant = "local"
       /\ \/ runEffectsLocal
          \/ handleAddProjectLocal
          \/ \E p \in Range(projectsForDisplay) : handleSelectProjectLocal(p.id)
          \/ \E p \in Range(projectsForDisplay) : handleDeleteProjectLocal(p.id)
          \/ \E i, j \in 0..(Len(projectsForDisplay) - 1) :
                handleReorderProjectsLocal(i, j)
          \/ undoTimerFires
          \/ deleteTimerFires
          \/ cancelUndoableDelete
          \/ toastUnmountLocal

\* three projects without tasks, as handleAddProject makes them
ThreeProjects ==
    << [id |-> 1, tasks |-> << >>], [id |-> 2, tasks |-> << >>],
       [id |-> 3, tasks |-> << >>] >>

\* either variant with the three projects and one of them selected
InitThreeProjects ==
    /\ projects = ThreeProjects
    /\ completedTasks = << >>
    /\ activeProjectId \in { p.id : p \in Range(ThreeProjects) }
    /\ settings = defaultSettings
    /\ variant \in {"session", "local"}
    /\ isDataLoaded = (variant = "session")
    /\ deletedItem = NoItem
    /\ undoTimeoutRef = FALSE
    /\ undoTimeouts = {}
    /\ overwritten = NoItem
    /\ toastRendered = FALSE
    /\ today = 0
    /\ nextId = [project |-> Len(ThreeProjects), task |-> 0]
    /\ activeEffectDue = TRUE
    /\ priorityEffectDue = TRUE
    /\ lastOp = "mount"
    /\ lowPromoted = {}
    /\ reverted = {}
    /\ localIdle

\* a fresh mount of either variant, or three projects with one selected
InitActive == InitBoth \/ InitThreeProjects

SpecActive == InitActive /\ [][NextActive]_vars

\* C30: once the effects have settled, activeProjectId is null exactly when
\* projects is empty, and is otherwise the id of a project in projects
C30_ActiveSelectionValid ==
    Settled =>
        /\ (activeProjectId = NoProject) <=> (Len(projects) = 0)
        /\ activeProjectId # NoProject => HasId(projects, activeProjectId)

\* in the local variant the selected project was deleted and, while the
\* deletion was pending, a drag reorder has stored the list without it; the
\* effects have settled on a project of that list
C30_Witness ==
    /\ variant = "local"
    /\ Settled
    /\ lastOp = "handleReorderProjects"
    /\ itemToUndo # NoItem
    /\ itemToUndo.type = "project"
    /\ ~HasId(projects, itemToUndo.item.id)
    /\ HasId(projects, activeProjectId)

============================================================================
